---- MODULE Spec2Model ----
(***************************************************************************)
(* A model of the MLS enrichment builder                                   *)
(* (scripts/build_mls_enriched_dataset.js, the current version, lines      *)
(* 1-868): the normalizers, the two matchers, the greedy exclusive         *)
(* assignment of realtor records to county rows, the synthesis of          *)
(* standalone rows and the output assembly.                                *)
(*                                                                         *)
(* Text values (CSV cells) are sequences of one-character strings, so that *)
(* the normalizers work on characters as the source does.  An absent cell  *)
(* (undefined) and the empty string are both << >>: the source maps both   *)
(* to "" or 0 before use (cols[i] || "", String(v || ""), num).            *)
(* Amounts returned by num are in tenths, so that one fractional digit of  *)
(* a cell is kept up to Math.round.  A value that may be null is << >> for *)
(* null and <<v>> otherwise.                                               *)
(***************************************************************************)
EXTENDS Integers, Sequences, FiniteSets, TLC

VARIABLES
  pc,            \* position of main(): start, match, synthOpen, write, report, done, error;
                 \* call, returned when a function is applied on its own
  fsys,          \* the file system main() reads: base file, realtor directory, brokerage files
  outputFile,    \* contents of OUTPUT_FILE ("previous" until written)
  reportFile,    \* contents of REPORT_FILE ("previous" until written)
  rows,          \* county rows as loaded by readBaseRows
  mlsRows,       \* realtor records as loaded by readRealtorRows
  used,          \* the exclusion set: uids of consumed realtor records
  cursor,        \* index of the next county row of rows.map
  merged,        \* output rows of the county rows processed so far
  trace,         \* per county row: what the matcher tried and chose
  matched,       \* counter of closed matches
  listingStubbed,\* counter of stub matches
  mlsOnlyRows,   \* synthesized closed-only rows
  mlsOpenOnlyRows, \* synthesized open-listing rows
  probe,         \* argument of a function applied on its own
  result         \* value the function returned for probe

vars == <<pc, fsys, outputFile, reportFile, rows, mlsRows, used, cursor, merged,
          trace, matched, listingStubbed, mlsOnlyRows, mlsOpenOnlyRows, probe, result>>

(***************************************************************************)
(* Characters and numbers                                                  *)
(***************************************************************************)
DigitChars == {"0", "1", "2", "3", "4", "5", "6", "7", "8", "9"}

NumChars == DigitChars \cup {".", "-"}

DigitVal(c) ==
  CASE c = "0" -> 0 [] c = "1" -> 1 [] c = "2" -> 2 [] c = "3" -> 3 [] c = "4" -> 4
    [] c = "5" -> 5 [] c = "6" -> 6 [] c = "7" -> 7 [] c = "8" -> 8 [] c = "9" -> 9

RECURSIVE DigitsValue(_)
DigitsValue(s) ==
  IF s = << >> THEN 0
  ELSE DigitsValue(SubSeq(s, 1, Len(s) - 1)) * 10 + DigitVal(s[Len(s)])

IsDigitChar(c) == c \in DigitChars

IsNumChar(c) == c \in NumChars

AllDigits(s) == \A i \in 1..Len(s) : s[i] \in DigitChars

Abs(x) == IF x < 0 THEN -x ELSE x

\* Math.round of an amount in tenths: the nearest integer, halves towards +infinity.
MathRound(t) == (t + 5) \div 10

\* the white space String.prototype.trim removes
WhitespaceChars == {" ", "\t", "\n", "\r"}

RECURSIVE TrimLeft(_)
TrimLeft(s) == IF s # << >> /\ s[1] \in WhitespaceChars THEN TrimLeft(Tail(s)) ELSE s

RECURSIVE TrimRight(_)
TrimRight(s) ==
  IF s # << >> /\ s[Len(s)] \in WhitespaceChars
  THEN TrimRight(SubSeq(s, 1, Len(s) - 1))
  ELSE s

Trim(s) == TrimRight(TrimLeft(s))

\* the place of the first dot of a text, or one past its end
DotIndex(body) ==
  IF \A i \in 1..Len(body) : body[i] # "." THEN Len(body) + 1
  ELSE CHOOSE i \in 1..Len(body) : body[i] = "." /\ \A j \in 1..(i - 1) : body[j] # "."

\* Number() of an unsigned text of digits and dots whose first dot is at dot, in
\* tenths: digits with at most one dot and at least one digit, else NaN (0 in num)
MagnitudeAt(body, dot) ==
  IF /\ \A i \in 1..Len(body) : body[i] # "-"
     /\ \A i \in (dot + 1)..Len(body) : body[i] # "."
     /\ Len(body) - (IF dot <= Len(body) THEN 1 ELSE 0) >= 1
  THEN DigitsValue(SubSeq(body, 1, dot - 1)) * 10
       + (IF dot < Len(body) THEN DigitVal(body[dot + 1]) ELSE 0)
  ELSE 0

\* Number() of a text of digits, dots and minus signs, in tenths, 0 for NaN
NumberOf(s) ==
  IF s = << >> THEN 0
  ELSE IF s[1] = "-" THEN 0 - MagnitudeAt(Tail(s), DotIndex(Tail(s)))
  ELSE MagnitudeAt(s, DotIndex(s))

\* a parser that hands the text to Number() without stripping it
NumWithoutStrip(v) ==
  IF v = << >> THEN 0
  ELSE IF \A i \in 1..Len(v) : IsNumChar(v[i]) THEN NumberOf(v)
  ELSE 0

\* num (lines 93-97): strip every character but digits, dot and minus, then
\* Number(), and 0 when that is not finite.  The value is in tenths.
num(v) == IF v = << >> THEN 0 ELSE NumberOf(SelectSeq(v, IsNumChar))

(***************************************************************************)
(* Dates                                                                   *)
(***************************************************************************)
IsIsoFormat(raw) ==
  /\ Len(raw) = 10
  /\ raw[5] = "-" /\ raw[8] = "-"
  /\ \A i \in {1, 2, 3, 4, 6, 7, 9, 10} : raw[i] \in DigitChars

\* "H:MM:SS AM" with an hour of h digits
IsTimeOfDay(u, h) ==
  /\ Len(u) = h + 9
  /\ AllDigits(SubSeq(u, 1, h))
  /\ u[h + 1] = ":" /\ AllDigits(SubSeq(u, h + 2, h + 3))
  /\ u[h + 4] = ":" /\ AllDigits(SubSeq(u, h + 5, h + 6))
  /\ u[h + 7] = " "
  /\ u[h + 8] \in {"A", "P"} /\ u[h + 9] = "M"

\* (?:\s+\d{1,2}:\d{2}:\d{2}\s+[AP]M)? of the US format (line 64)
IsTimeSuffix(t) ==
  \/ t = << >>
  \/ /\ t[1] = " "
     /\ \/ IsTimeOfDay(TrimLeft(t), 1)
        \/ IsTimeOfDay(TrimLeft(t), 2)

PadStart2(s) == IF Len(s) < 2 THEN <<"0">> \o s ELSE s

\* the groups of the US format given the month, the day and the text after the
\* second slash; << >> if they do not match
UsGroupsOf(mm, dd, rest) ==
  IF /\ Len(mm) \in {1, 2} /\ AllDigits(mm)
     /\ Len(dd) \in {1, 2} /\ AllDigits(dd)
     /\ Len(rest) >= 4 /\ AllDigits(SubSeq(rest, 1, 4))
     /\ IsTimeSuffix(SubSeq(rest, 5, Len(rest)))
  THEN <<mm, dd, SubSeq(rest, 1, 4)>>
  ELSE << >>

SlashPlaces(raw) == {i \in 1..Len(raw) : raw[i] = "/"}

MinOf(S) == CHOOSE i \in S : \A j \in S : i <= j

MaxOf(S) == CHOOSE i \in S : \A j \in S : i >= j

UsGroupsAt(raw, s1, s2) ==
  UsGroupsOf(SubSeq(raw, 1, s1 - 1), SubSeq(raw, s1 + 1, s2 - 1), SubSeq(raw, s2 + 1, Len(raw)))

\* the groups of /^(\d{1,2})\/(\d{1,2})\/(\d{4})(time)?$/ (line 64), or << >>
UsFormatGroups(raw) ==
  IF Cardinality(SlashPlaces(raw)) # 2 THEN << >>
  ELSE UsGroupsAt(raw, MinOf(SlashPlaces(raw)), MaxOf(SlashPlaces(raw)))

\* new Date(raw) on text in neither format (line 74): the texts of this model
\* that get here ("TBD") are not dates, and the result is Invalid Date.
GenericDateParse(raw) == << >>

\* lines 67-76, m being the match of the US format
IsoFromGroups(raw, m) ==
  IF m # << >> THEN m[3] \o <<"-">> \o PadStart2(m[1]) \o <<"-">> \o PadStart2(m[2])
  ELSE GenericDateParse(raw)

IsoOfTrimmed(raw) ==
  IF raw = << >> THEN << >>
  ELSE IF IsIsoFormat(raw) THEN raw
  ELSE IsoFromGroups(raw, UsFormatGroups(raw))

\* toIsoDate (lines 59-77): "" or a YYYY-MM-DD text.  An ISO-shaped text is
\* returned as it is, without looking at its month and day.
toIsoDate(value) == IsoOfTrimmed(Trim(value))

DaysOfEra(era, yoe, doy) ==
  era * 146097 + yoe * 365 + yoe \div 4 - yoe \div 100 + doy - 719468

DaysOfShifted(yy, mp, d) ==
  DaysOfEra(yy \div 400, yy - (yy \div 400) * 400, (153 * mp + 2) \div 5 + d - 1)

\* days since 1970-01-01 of a civil date; a day beyond the month's end rolls
\* into the next month, as Date does
DaysFromCivil(y, m, d) == DaysOfShifted(IF m <= 2 THEN y - 1 ELSE y, (m + 9) % 12, d)

\* new Date(`${iso}T00:00:00`) (line 82): invalid for a month outside 1..12 or
\* a day outside 1..31
DateOfParts(y, m, d) ==
  IF m \in 1..12 /\ d \in 1..31 THEN <<DaysFromCivil(y, m, d)>> ELSE << >>

DateOfIso(iso) ==
  IF iso = << >> THEN << >>
  ELSE DateOfParts(DigitsValue(SubSeq(iso, 1, 4)), DigitsValue(SubSeq(iso, 6, 7)),
                   DigitsValue(SubSeq(iso, 9, 10)))

\* toDate (lines 79-84): << >> for null, else <<day number>> of local midnight
toDate(value) == DateOfIso(toIsoDate(value))

DiffOfDates(d1, d2) == IF d1 = << >> \/ d2 = << >> THEN << >> ELSE <<d2[1] - d1[1]>>

\* dayDiff (lines 86-91): << >> for null, else <<whole days from a to b>>
dayDiff(a, b) == DiffOfDates(toDate(a), toDate(b))

(***************************************************************************)
(* Parcel keys                                                             *)
(***************************************************************************)
ApnDigits == 10

StripNonDigits(s) == SelectSeq(s, IsDigitChar)

ExactlyApnDigits(digits) == IF Len(digits) = ApnDigits THEN digits ELSE << >>

\* a normalizer that keeps the digits whatever their number
AnyDigitsApn(v) == StripNonDigits(v)

\* normalizeApn (lines 99-102): the digits if there are exactly 10, else ""
normalizeApn(v) == ExactlyApnDigits(StripNonDigits(v))

LastApnDigits(parcel) ==
  IF Len(parcel) >= ApnDigits
  THEN SubSeq(parcel, Len(parcel) - ApnDigits + 1, Len(parcel))
  ELSE << >>

\* parcelDigits (lines 108-111): the last 10 digits of parcelNbr, or of
\* major+minor when parcelNbr is empty; "" when there are fewer than 10
parcelDigits(row) ==
  LastApnDigits(StripNonDigits(IF row.parcelNbr # << >> THEN row.parcelNbr
                               ELSE row.major \o row.minor))

(***************************************************************************)
(* Program constants (lines 13-33)                                         *)
(***************************************************************************)
REQUIRED_REALTOR_COLUMNS ==
  <<"APN", "Status", "Listing Date", "Pending Date", "Contractual Date", "Selling Date",
    "Listing Price", "Original Price", "Selling Price", "DOM", "CDOM">>

MAX_DATE_LAG_DAYS == 45

PRICE_TOLERANCE_ABS == 5000

\* PRICE_TOLERANCE_PCT = 0.005, as parts per thousand
PRICE_TOLERANCE_PER_MILLE == 5

LISTING_STUB_MAX_DATE_LAG_DAYS == 120

\* LISTING_STUB_MAX_PRICE_DIFF_PCT = 0.5, as tenths
LISTING_STUB_MAX_PRICE_DIFF_TENTHS == 5

HOT_MARKET_DAYS == 10

ULTRA_HOT_DAYS == 5

\* the weight of a day of lag in both scores (lines 379 and 425)
LAG_WEIGHT == 100000

\* the weight of a status rank in the stub score (line 425)
STATUS_WEIGHT == 10000

(***************************************************************************)
(* Status text.  Status cells are whole strings; the case mappings of the  *)
(* source are tables over the status vocabulary of the model.              *)
(***************************************************************************)
\* String(raw).trim().toUpperCase()
ToUpperCase(s) ==
  CASE s \in {"Sold", "SOLD", "sold"} -> "SOLD"
    [] s \in {"Active", "ACTIVE"} -> "ACTIVE"
    [] s \in {"Pending", "PENDING", "pending"} -> "PENDING"
    [] s \in {"Pending Inspection", "PENDING INSPECTION"} -> "PENDING INSPECTION"
    [] s \in {"Pending BU Requested", "PENDING BU REQUESTED"} -> "PENDING BU REQUESTED"
    [] s \in {"Contingent", "CONTINGENT"} -> "CONTINGENT"
    [] s \in {"Closed", "CLOSED"} -> "CLOSED"
    [] s \in {"Expired", "EXPIRED"} -> "EXPIRED"
    [] OTHER -> s

\* up.toLowerCase().replace(/\b\w/g, upper) of an upper-case text (lines 215-217)
TitleCase(up) ==
  CASE up = "CLOSED" -> "Closed"
    [] up = "EXPIRED" -> "Expired"
    [] OTHER -> up

CanonicalStatus(up) ==
  CASE up = "" -> ""
    [] up = "SOLD" -> "Sold"
    [] up = "ACTIVE" -> "Active"
    [] up = "PENDING" -> "Pending"
    [] up = "PENDING INSPECTION" -> "Pending Inspection"
    [] up = "PENDING BU REQUESTED" -> "Pending BU Requested"
    [] up = "CONTINGENT" -> "Contingent"
    [] OTHER -> TitleCase(up)

\* normalizeMlsStatus (lines 206-218)
normalizeMlsStatus(raw) == CanonicalStatus(ToUpperCase(raw))

\* /sold|closed/i.test(status) (line 322)
IsClosedStatusText(status) == ToUpperCase(status) \in {"SOLD", "CLOSED"}

StubWeightOfUpper(s) ==
  CASE s = "PENDING" -> 0
    [] s = "PENDING INSPECTION" -> 1
    [] s = "PENDING BU REQUESTED" -> 2
    [] s = "CONTINGENT" -> 3
    [] s = "ACTIVE" -> 4
    [] OTHER -> 5

\* statusStubWeight (lines 396-404)
statusStubWeight(status) == StubWeightOfUpper(ToUpperCase(status))

\* a threshold test that takes a DOM of zero or less as a day count
WithinDaysAnyDom(dom, daysToPending, days) ==
  \/ dom <= days
  \/ (daysToPending # << >> /\ daysToPending[1] <= days)

\* lines 120 and 122: a positive DOM, or a days-to-pending that is not null, within days
WithinDays(dom, daysToPending, days) ==
  \/ (dom > 0 /\ dom <= days)
  \/ (daysToPending # << >> /\ daysToPending[1] <= days)

\* buildHotMarketTag (lines 119-125); daysToPending is << >> (null) or <<n>>
buildHotMarketTag(dom, daysToPending) ==
  IF WithinDays(dom, daysToPending, ULTRA_HOT_DAYS) THEN "ULTRA_HOT_<=5D"
  ELSE IF WithinDays(dom, daysToPending, HOT_MARKET_DAYS) THEN "HOT_MARKET_<=10D"
  ELSE ""

(***************************************************************************)
(* Loading                                                                 *)
(***************************************************************************)
\* the cell of a line under a header: "" when the file has no such column
Cell(headers, line, h) == IF h \in headers THEN line[h] ELSE << >>

\* the cells of a line of the base file (lines 263-265)
BaseCells(headers, line) ==
  [id |-> IF "id" \in headers THEN line.id ELSE "",
   dataMode |-> IF "dataMode" \in headers THEN line.dataMode ELSE "",
   parcelNbr |-> Cell(headers, line, "parcelNbr"),
   major |-> Cell(headers, line, "major"),
   minor |-> Cell(headers, line, "minor"),
   saleDate |-> Cell(headers, line, "saleDate"),
   closePrice |-> Cell(headers, line, "closePrice")]

\* lines 266-268: __parcel, __saleDate and __closePrice beside the cells.  No
\* column of the base file is required here.
LoadedBaseRow(obj) ==
  [id |-> obj.id,
   dataMode |-> obj.dataMode,
   saleDate |-> obj.saleDate,
   closePrice |-> obj.closePrice,
   parcel |-> parcelDigits(obj),
   saleDateIso |-> toIsoDate(obj.saleDate),
   closePriceN |-> MathRound(num(obj.closePrice))]

\* readBaseRows (lines 257-274)
readBaseRows(base) ==
  [i \in 1..Len(base.lines) |-> LoadedBaseRow(BaseCells(base.headers, base.lines[i]))]

\* the pieces of a text between its "|" characters, for the file names and
\* listing numbers of the model
PipePieces(text) ==
  CASE text = "NE Seattle Sale Stats.csv|7.csv" -> <<"NE Seattle Sale Stats.csv", "7.csv">>
    [] text = "7.csv|" -> <<"7.csv", "">>
    [] OTHER -> <<text>>

\* [file, listingNumber, apn, status, sellingDate, sellingPrice, rowIndex].join("|")
\* (line 321).  The last five parts hold no "|", so two joined texts are equal
\* exactly when these five parts are and the pieces of the first two, laid end
\* to end, are
JoinedUid(file, listingNumber, apn, status, sellingDate, sellingPrice, rowIndex) ==
  <<PipePieces(file) \o PipePieces(listingNumber), apn, status, sellingDate, sellingPrice,
    rowIndex>>

\* lines 321-354: the record of a data line whose APN is a key
RealtorRecord(file, line, rowIndex, status, sellingDate, sellingPrice, apn) ==
  [uid |-> JoinedUid(file, line.ListingNumber, apn, status, sellingDate, sellingPrice,
                     rowIndex),
   status |-> status,
   isClosed |-> IsClosedStatusText(status) \/ (sellingDate # << >> /\ sellingPrice > 0),
   apn |-> apn,
   listingNumber |-> line.ListingNumber,
   listingDate |-> toIsoDate(line.ListingDate),
   pendingDate |-> toIsoDate(line.PendingDate),
   contractualDate |-> toIsoDate(line.ContractualDate),
   sellingDate |-> sellingDate,
   listingPrice |-> MathRound(num(line.ListingPrice)),
   sellingPrice |-> sellingPrice,
   originalPrice |-> MathRound(num(line.OriginalPrice)),
   domRaw |-> line.DOM,
   dom |-> MathRound(num(line.DOM))]

\* lines 308-309: a line whose APN is not a 10-digit key is dropped
RealtorRowOfApn(file, line, rowIndex, apn) ==
  IF apn = << >> THEN << >>
  ELSE <<RealtorRecord(file, line, rowIndex, normalizeMlsStatus(line.Status),
                       toIsoDate(line.SellingDate), MathRound(num(line.SellingPrice)), apn)>>

\* readRealtorRows, one data line (lines 299-355): << >> or <<record>>
RealtorRow(file, line, rowIndex) ==
  RealtorRowOfApn(file, line, rowIndex, normalizeApn(line.APN))

RECURSIVE FileRows(_, _, _)
\* the records of the data lines of one file from line i on (rowIndex is i - 1)
FileRows(file, lines, i) ==
  IF i > Len(lines) THEN << >>
  ELSE RealtorRow(file, lines[i], i - 1) \o FileRows(file, lines, i + 1)

\* findHeaderIndex (lines 233-239): the header line is the one holding APN and Status
HasHeaderRow(f) == "APN" \in f.headers /\ "Status" \in f.headers

\* missingRequired (line 294)
MissingRequired(f) ==
  SelectSeq(REQUIRED_REALTOR_COLUMNS, LAMBDA h : h \notin f.headers)

\* a file with fewer than two lines is passed over (line 286)
FileSkipped(f) == 1 + Len(f.lines) < 2

\* the file makes readRealtorRows throw (lines 289-297)
FileThrows(f) == ~FileSkipped(f) /\ (~HasHeaderRow(f) \/ MissingRequired(f) # << >>)

RECURSIVE ReadFiles(_, _)
ReadFiles(files, k) ==
  IF k > Len(files) THEN << >>
  ELSE (IF FileSkipped(files[k]) THEN << >> ELSE FileRows(files[k].file, files[k].lines, 1))
       \o ReadFiles(files, k + 1)

\* readRealtorRows (lines 276-358), when no file throws
readRealtorRows(files) == ReadFiles(files, 1)

\* the place of a file name in the order of localeCompare (line 225), for the
\* names of the model
NameRank(name) ==
  CASE name = "NE Seattle Sale Stats.csv" -> 1
    [] name = "NE Seattle Sale Stats.csv|7.csv" -> 2
    [] name = "NW Seattle Sale Stats.csv" -> 3
    [] OTHER -> 4

RECURSIVE SortedInsert(_, _)
SortedInsert(x, s) ==
  IF s = << >> THEN <<x>>
  ELSE IF NameRank(x.file) <= NameRank(Head(s).file) THEN <<x>> \o s
  ELSE <<Head(s)>> \o SortedInsert(x, Tail(s))

RECURSIVE SortByName(_)
\* .sort((a, b) => a.localeCompare(b)) (line 225)
SortByName(s) == IF s = << >> THEN << >> ELSE SortedInsert(Head(s), SortByName(Tail(s)))

\* a discovery that keeps the order in which readdirSync lists the directory
DiscoverUnsorted(f) ==
  IF ~f.dirExists THEN << >>
  ELSE SelectSeq(f.files, LAMBDA x : x.isCsv /\ ~x.isDotFile)

\* discoverRealtorFiles (lines 220-231): the .csv files that are not dot files,
\* sorted by name; f.files is the directory in the order readdirSync lists it
discoverRealtorFiles(f) ==
  IF ~f.dirExists THEN << >>
  ELSE SortByName(SelectSeq(f.files, LAMBDA x : x.isCsv /\ ~x.isDotFile))

(***************************************************************************)
(* The matchers                                                            *)
(***************************************************************************)
\* a price test that lets every price through
PriceAlwaysOk(priceDiff, basePrice) == TRUE

\* priceOk (lines 375-376): priceDiff / basePrice <= 0.005 for a positive
\* basePrice, and 1 <= 0.005 otherwise
PriceOk(priceDiff, basePrice) ==
  \/ priceDiff <= PRICE_TOLERANCE_ABS
  \/ (basePrice > 0 /\ priceDiff <= (PRICE_TOLERANCE_PER_MILLE * basePrice) \div 1000)

\* lines 372-386 for a candidate with a date: its score record, or << >>
ScoredMatch(c, dateLag, priceDiff, basePrice) ==
  IF dateLag > MAX_DATE_LAG_DAYS THEN << >>
  ELSE IF ~PriceOk(priceDiff, basePrice) THEN << >>
  ELSE <<[score |-> dateLag * LAG_WEIGHT + priceDiff,
          dateLag |-> dateLag,
          priceDiff |-> priceDiff,
          candidate |-> c]>>

\* the body of the loop of chooseBestMatch (lines 367-378) for one candidate:
\* << >> when the candidate is passed over, else <<its score record>>
MatchCandidate(baseRow, c, usedIds) ==
  IF c.uid \in usedIds THEN << >>
  ELSE IF c.sellingDate = << >> \/ c.sellingPrice = 0 THEN << >>
  ELSE IF toDate(c.sellingDate) = << >> THEN << >>
  ELSE ScoredMatch(c, Abs(dayDiff(baseRow.saleDateIso, c.sellingDate)[1]),
                   Abs(c.sellingPrice - baseRow.closePriceN), baseRow.closePriceN)

\* a comparison that also lets a candidate of equal score replace the best
BetterOrEqual(m, best) ==
  IF m # << >> /\ (best = << >> \/ m[1].score <= best[1].score) THEN m ELSE best

\* lines 380 and 426: a candidate replaces the best only with a smaller score
Better(m, best) ==
  IF m # << >> /\ (best = << >> \/ m[1].score < best[1].score) THEN m ELSE best

RECURSIVE BestMatchFrom(_, _, _, _, _)
BestMatchFrom(baseRow, candidates, usedIds, i, best) ==
  IF i > Len(candidates) THEN best
  ELSE BestMatchFrom(baseRow, candidates, usedIds, i + 1,
                     Better(MatchCandidate(baseRow, candidates[i], usedIds), best))

\* lines 361-363 and 407-409: the county row has a sale date and a close price
BaseRowMatchable(baseRow) == toDate(baseRow.saleDateIso) # << >> /\ baseRow.closePriceN # 0

\* a matcher that leaves the records of a parcel to a county row further down
YieldToLaterRow(baseRow, candidates, usedIds) ==
  IF ~BaseRowMatchable(baseRow) THEN << >>
  ELSE IF \E k \in (cursor + 1)..Len(rows) :
            rows[k].parcel = baseRow.parcel /\ BaseRowMatchable(rows[k])
  THEN << >>
  ELSE BestMatchFrom(baseRow, candidates, usedIds, 1, << >>)

\* chooseBestMatch (lines 360-390): << >> for null, else <<best>>
chooseBestMatch(baseRow, candidates, usedIds) ==
  IF ~BaseRowMatchable(baseRow) THEN << >>
  ELSE BestMatchFrom(baseRow, candidates, usedIds, 1, << >>)

\* an anchor that takes the listing date before the pending date
ListingDateFirst(c) ==
  IF c.listingDate # << >> THEN c.listingDate
  ELSE IF c.contractualDate # << >> THEN c.contractualDate
  ELSE c.pendingDate

\* stubAnchorDate (lines 392-394)
stubAnchorDate(c) ==
  IF c.pendingDate # << >> THEN c.pendingDate
  ELSE IF c.contractualDate # << >> THEN c.contractualDate
  ELSE c.listingDate

\* lines 422-423: priceDiff / basePrice > 0.5 for a positive basePrice, 1 > 0.5 otherwise
StubPriceTooFar(priceDiff, basePrice) ==
  \/ basePrice <= 0
  \/ priceDiff > (LISTING_STUB_MAX_PRICE_DIFF_TENTHS * basePrice) \div 10

\* lines 419-432 for a candidate with an anchor date
ScoredStub(c, lagDays, priceDiff, basePrice) ==
  IF lagDays = << >> THEN << >>
  ELSE IF lagDays[1] < 0 \/ lagDays[1] > LISTING_STUB_MAX_DATE_LAG_DAYS THEN << >>
  ELSE IF StubPriceTooFar(priceDiff, basePrice) THEN << >>
  ELSE <<[score |-> lagDays[1] * LAG_WEIGHT + statusStubWeight(c.status) * STATUS_WEIGHT
                    + priceDiff,
          lagDays |-> lagDays[1],
          priceDiff |-> priceDiff,
          candidate |-> c]>>

\* the body of the loop of chooseBestListingStub (lines 413-424)
StubCandidate(baseRow, c, usedIds) ==
  IF c.uid \in usedIds THEN << >>
  ELSE IF c.listingPrice <= 0 THEN << >>
  ELSE IF stubAnchorDate(c) = << >> THEN << >>
  ELSE ScoredStub(c, dayDiff(stubAnchorDate(c), baseRow.saleDateIso),
                  Abs(c.listingPrice - baseRow.closePriceN), baseRow.closePriceN)

RECURSIVE BestStubFrom(_, _, _, _, _)
BestStubFrom(baseRow, candidates, usedIds, i, best) ==
  IF i > Len(candidates) THEN best
  ELSE BestStubFrom(baseRow, candidates, usedIds, i + 1,
                    Better(StubCandidate(baseRow, candidates[i], usedIds), best))

\* chooseBestListingStub (lines 406-436)
chooseBestListingStub(baseRow, candidates, usedIds) ==
  IF ~BaseRowMatchable(baseRow) THEN << >>
  ELSE BestStubFrom(baseRow, candidates, usedIds, 1, << >>)

(***************************************************************************)
(* Collections main() derives from the loaded rows (lines 450-469)         *)
(***************************************************************************)
mlsClosedRows(mls) ==
  SelectSeq(mls, LAMBDA r : r.isClosed /\ r.sellingDate # << >> /\ r.sellingPrice > 0)

\* line 451
mlsOpenRows(mls) == SelectSeq(mls, LAMBDA r : ~r.isClosed)

\* knownCountySaleSignatures (lines 454-458)
knownCountySaleSignatures(base) ==
  {<<base[i].parcel, base[i].saleDateIso, base[i].closePriceN>> :
     i \in {j \in 1..Len(base) : /\ base[j].parcel # << >>
                                 /\ base[j].saleDateIso # << >>
                                 /\ base[j].closePriceN > 0}}

\* mlsClosedByApn.get(apn) || [] (lines 459-463, 475)
mlsClosedByApn(mls, apn) == SelectSeq(mlsClosedRows(mls), LAMBDA r : r.apn = apn)

\* mlsStubByApn.get(apn) || [] (lines 464-469, 537)
mlsStubByApn(mls, apn) ==
  SelectSeq(mlsOpenRows(mls), LAMBDA r : r.listingPrice > 0 /\ r.apn = apn)

(***************************************************************************)
(* main() (lines 442-866)                                                  *)
(***************************************************************************)
\* lines 443-447: a missing base file, a missing directory or no brokerage CSV
MissingInput(f) ==
  \/ ~f.base.exists
  \/ ~f.dirExists
  \/ discoverRealtorFiles(f) = << >>

\* readRealtorRows throws on one of the discovered files
RealtorReadThrows(f) ==
  \E k \in 1..Len(discoverRealtorFiles(f)) : FileThrows(discoverRealtorFiles(f)[k])

\* the output row of a county row and the candidate it took (lines 479-535, 539-595)
EnrichedRow(row, method, c, lag) ==
  [origin |-> "county", id |-> <<row.id>>, parcel |-> row.parcel,
   dataMode |-> "MLS_ENRICHED", mlsJoinMethod |-> method,
   mlsStatus |-> c.status, mlsListingNumber |-> c.listingNumber,
   mlsDateLagDays |-> <<lag>>]

\* the output row of a county row (lines 477-621)
MergedRow(row, match, stub) ==
  IF match # << >>
  THEN EnrichedRow(row, "APN_PRICE_DATE_WINDOW", match[1].candidate, match[1].dateLag)
  ELSE IF stub # << >>
  THEN EnrichedRow(row, "APN_LISTING_STUB", stub[1].candidate, stub[1].lagDays)
  ELSE [origin |-> "county", id |-> <<row.id>>, parcel |-> row.parcel,
        dataMode |-> row.dataMode, mlsJoinMethod |-> "",
        mlsStatus |-> "", mlsListingNumber |-> "", mlsDateLagDays |-> << >>]

\* what the matcher did for a county row: the strategies it ran and the uid it took
TraceEntry(match, stub, triedStub) ==
  [triedClosed |-> TRUE,
   triedStub |-> triedStub,
   closedUid |-> IF match # << >> THEN <<match[1].candidate.uid>> ELSE << >>,
   stubUid |-> IF stub # << >> THEN <<stub[1].candidate.uid>> ELSE << >>]

\* a matcher that runs the stub strategy for every county row
StubAlwaysAttempted(match) == TRUE

\* the stub strategy runs in the else branch of "if (match)" (lines 536-538)
StubAttempted(match) == match = << >>

\* a matcher that never records the uid it took
UsedNeverGrows(usedIds, match, stub) == usedIds

\* a matcher that keeps only the uid it took last
UsedOnlyLatest(usedIds, match, stub) ==
  (IF match # << >> THEN {match[1].candidate.uid} ELSE {})
  \cup (IF stub # << >> THEN {stub[1].candidate.uid} ELSE {})

\* the uids a county row adds to the exclusion set (lines 481 and 541)
UsedAfter(usedIds, match, stub) ==
  usedIds \cup (IF match # << >> THEN {match[1].candidate.uid} ELSE {})
          \cup (IF stub # << >> THEN {stub[1].candidate.uid} ELSE {})

\* a synthesized closed-only row (lines 632-703); index is the position in mlsClosedRows
ClosedOnlyRow(c, index) ==
  [origin |-> "mlsOnly",
   id |-> <<"mls-only", IF c.listingNumber # "" THEN c.listingNumber ELSE "na", c.apn,
            c.sellingDate, index>>,
   parcel |-> c.apn,
   saleDate |-> c.sellingDate,
   closePrice |-> IF c.sellingPrice > 0 THEN <<c.sellingPrice>> ELSE << >>,
   dataMode |-> "MLS_ENRICHED", mlsJoinMethod |-> "MLS_SOLD_NOT_IN_COUNTY",
   mlsStatus |-> c.status, mlsListingNumber |-> c.listingNumber, mlsDateLagDays |-> << >>]

\* a closed-only guard without the signature test of line 630
SkippedIgnoringSignature(c, usedIds, signatures) ==
  \/ c.uid \in usedIds
  \/ c.apn = << >> \/ c.sellingDate = << >> \/ c.sellingPrice <= 0

\* a closed-only guard without the exclusion test of line 627
SkippedIgnoringUsed(c, usedIds, signatures) ==
  \/ c.apn = << >> \/ c.sellingDate = << >> \/ c.sellingPrice <= 0
  \/ <<c.apn, c.sellingDate, c.sellingPrice>> \in signatures

\* the guard of the closed-only loop (lines 627-630): TRUE when c is passed over
ClosedOnlySkipped(c, usedIds, signatures) ==
  \/ c.uid \in usedIds
  \/ c.apn = << >> \/ c.sellingDate = << >> \/ c.sellingPrice <= 0
  \/ <<c.apn, c.sellingDate, c.sellingPrice>> \in signatures

RECURSIVE ClosedOnlyFrom(_, _, _, _)
ClosedOnlyFrom(closed, usedIds, signatures, i) ==
  IF i > Len(closed) THEN << >>
  ELSE (IF ClosedOnlySkipped(closed[i], usedIds, signatures) THEN << >>
        ELSE <<ClosedOnlyRow(closed[i], i)>>)
       \o ClosedOnlyFrom(closed, usedIds, signatures, i + 1)

\* a synthesized open-listing row (lines 711-775); index is the position in mlsOpenRows
OpenOnlyRow(c, index) ==
  [origin |-> "mlsOpen",
   id |-> <<"mls-open", IF c.listingNumber # "" THEN c.listingNumber ELSE "na", c.apn, index>>,
   parcel |-> c.apn,
   saleDate |-> << >>, closePrice |-> << >>,
   dataMode |-> "MLS_ENRICHED", mlsJoinMethod |-> "MLS_STATUS_OPEN",
   mlsStatus |-> c.status, mlsListingNumber |-> c.listingNumber, mlsDateLagDays |-> << >>]

\* an open-listing loop without the exclusion test of line 710
OpenRowsForAll(open, usedIds, i) == [k \in 1..Len(open) |-> OpenOnlyRow(open[k], k)]

RECURSIVE OpenOnlyFrom(_, _, _)
OpenOnlyFrom(open, usedIds, i) ==
  IF i > Len(open) THEN << >>
  ELSE (IF open[i].uid \in usedIds THEN << >> ELSE <<OpenOnlyRow(open[i], i)>>)
       \o OpenOnlyFrom(open, usedIds, i + 1)

\* an assembly that keeps only the county rows that were enriched
EnrichedRowsOnly(m, closedOnly, openOnly) ==
  SelectSeq(m, LAMBDA r : r.mlsJoinMethod # "") \o closedOnly \o openOnly

\* finalRows (line 779)
FinalRows(m, closedOnly, openOnly) == m \o closedOnly \o openOnly

\* the counts of the report (lines 822-833)
ReportCounts ==
  [mlsRowsParsed |-> Len(mlsRows),
   mlsClosedRows |-> Len(mlsClosedRows(mlsRows)),
   mlsOpenStatusRows |-> Len(mlsOpenRows(mlsRows)),
   baseRows |-> Len(rows),
   matchedCountyRows |-> matched,
   countyRowsEnrichedWithListingStub |-> listingStubbed,
   mlsOnlySoldRowsAdded |-> Len(mlsOnlyRows),
   mlsOnlyOpenRowsAdded |-> Len(mlsOpenOnlyRows),
   outputRows |-> Len(FinalRows(merged, mlsOnlyRows, mlsOpenOnlyRows))]

\* lines 443-447: main throws before reading anything
FailMissingInput ==
  /\ pc = "start"
  /\ MissingInput(fsys)
  /\ pc' = "error"
  /\ UNCHANGED <<fsys, outputFile, reportFile, rows, mlsRows, used, cursor, merged, trace,
                 matched, listingStubbed, mlsOnlyRows, mlsOpenOnlyRows, probe, result>>

\* lines 448-449, a brokerage file without header row or without a required column
FailRealtorRead ==
  /\ pc = "start"
  /\ ~MissingInput(fsys)
  /\ RealtorReadThrows(fsys)
  /\ pc' = "error"
  /\ UNCHANGED <<fsys, outputFile, reportFile, rows, mlsRows, used, cursor, merged, trace,
                 matched, listingStubbed, mlsOnlyRows, mlsOpenOnlyRows, probe, result>>

\* lines 443-471: both inputs are read and the run starts matching
ReadInputs ==
  /\ pc = "start"
  /\ ~MissingInput(fsys)
  /\ ~RealtorReadThrows(fsys)
  /\ rows' = readBaseRows(fsys.base)
  /\ mlsRows' = readRealtorRows(discoverRealtorFiles(fsys))
  /\ used' = {}
  /\ matched' = 0
  /\ listingStubbed' = 0
  /\ cursor' = 1
  /\ pc' = "match"
  /\ UNCHANGED <<fsys, outputFile, reportFile, merged, trace, mlsOnlyRows, mlsOpenOnlyRows,
                 probe, result>>

\* lines 479-621: the effects of a county row given what the matchers returned
ApplyOutcome(row, match, stub, triedStub) ==
  /\ used' = UsedAfter(used, match, stub)
  /\ matched' = IF match # << >> THEN matched + 1 ELSE matched
  /\ listingStubbed' = IF stub # << >> THEN listingStubbed + 1 ELSE listingStubbed
  /\ merged' = Append(merged, MergedRow(row, match, stub))
  /\ trace' = Append(trace, TraceEntry(match, stub, triedStub))

\* lines 536-538: the stub matcher runs only when it is attempted
StubStep(row, match, triedStub) ==
  ApplyOutcome(row, match,
               IF triedStub
               THEN chooseBestListingStub(row, mlsStubByApn(mlsRows, row.parcel), used)
               ELSE << >>,
               triedStub)

ClosedStep(row, match) == StubStep(row, match, StubAttempted(match))

\* one call of the callback of rows.map (lines 474-622)
MatchRow ==
  /\ pc = "match"
  /\ cursor <= Len(rows)
  /\ ClosedStep(rows[cursor],
                chooseBestMatch(rows[cursor], mlsClosedByApn(mlsRows, rows[cursor].parcel), used))
  /\ cursor' = cursor + 1
  /\ UNCHANGED <<pc, fsys, outputFile, reportFile, rows, mlsRows, mlsOnlyRows,
                 mlsOpenOnlyRows, probe, result>>

\* the loop over mlsClosedRows (lines 624-705)
SynthesizeClosed ==
  /\ pc = "match"
  /\ cursor > Len(rows)
  /\ mlsOnlyRows' = ClosedOnlyFrom(mlsClosedRows(mlsRows), used,
                                   knownCountySaleSignatures(rows), 1)
  /\ pc' = "synthOpen"
  /\ UNCHANGED <<fsys, outputFile, reportFile, rows, mlsRows, used, cursor, merged, trace,
                 matched, listingStubbed, mlsOpenOnlyRows, probe, result>>

\* the loop over mlsOpenRows (lines 707-777)
SynthesizeOpen ==
  /\ pc = "synthOpen"
  /\ mlsOpenOnlyRows' = OpenOnlyFrom(mlsOpenRows(mlsRows), used, 1)
  /\ pc' = "write"
  /\ UNCHANGED <<fsys, outputFile, reportFile, rows, mlsRows, used, cursor, merged, trace,
                 matched, listingStubbed, mlsOnlyRows, probe, result>>

\* lines 779-813: the rows are concatenated and the CSV is written
WriteOutput ==
  /\ pc = "write"
  /\ outputFile' = [state |-> "written",
                    rows |-> FinalRows(merged, mlsOnlyRows, mlsOpenOnlyRows)]
  /\ pc' = "report"
  /\ UNCHANGED <<fsys, reportFile, rows, mlsRows, used, cursor, merged, trace,
                 matched, listingStubbed, mlsOnlyRows, mlsOpenOnlyRows, probe, result>>

\* lines 815-838: the report is written
WriteReport ==
  /\ pc = "report"
  /\ reportFile' = [state |-> "written", counts |-> <<ReportCounts>>]
  /\ pc' = "done"
  /\ UNCHANGED <<fsys, outputFile, rows, mlsRows, used, cursor, merged, trace,
                 matched, listingStubbed, mlsOnlyRows, mlsOpenOnlyRows, probe, result>>

(***************************************************************************)
(* The inputs of a run: the lines of the county file and of the brokerage  *)
(* files, as the cells of the CSV.                                         *)
(***************************************************************************)
\* the most county lines and the most brokerage lines of a run
MaxCounty == 2

MaxRealtor == 2

\* parcel 123456-0010 by major and minor, sold 2024-01-10 for 500000
CountyByMajorMinor ==
  [id |-> "c1", dataMode |-> "PUBLIC_PROXY",
   parcelNbr |-> << >>,
   major |-> <<"1", "2", "3", "4", "5", "6">>, minor |-> <<"0", "0", "1", "0">>,
   saleDate |-> <<"2", "0", "2", "4", "-", "0", "1", "-", "1", "0">>,
   closePrice |-> <<"5", "0", "0", "0", "0", "0">>]

\* the same parcel by parcelNbr, US date, currency text: sold 2024-01-12 for 501000
CountyByParcelNbr ==
  [id |-> "c2", dataMode |-> "PUBLIC_PROXY",
   parcelNbr |-> <<"1", "2", "3", "4", "5", "6", "-", "0", "0", "1", "0">>,
   major |-> << >>, minor |-> << >>,
   saleDate |-> <<"1", "/", "1", "2", "/", "2", "0", "2", "4">>,
   closePrice |-> <<"$", "5", "0", "1", ",", "0", "0", "0">>]

\* a parcel number of 12 digits whose last 10 are 1234560010
CountyLongParcel ==
  [id |-> "c3", dataMode |-> "PUBLIC_PROXY",
   parcelNbr |-> <<"0", "0", "1", "2", "3", "4", "5", "6", "0", "0", "1", "0">>,
   major |-> << >>, minor |-> << >>,
   saleDate |-> <<"2", "0", "2", "4", "-", "0", "1", "-", "1", "0">>,
   closePrice |-> <<"5", "0", "0", "0", "0", "0">>]

\* a parcel number of 9 digits
CountyShortParcel ==
  [id |-> "c4", dataMode |-> "PUBLIC_PROXY",
   parcelNbr |-> << >>,
   major |-> <<"1", "2", "3", "4", "5">>, minor |-> <<"0", "0", "1", "0">>,
   saleDate |-> <<"2", "0", "2", "4", "-", "0", "1", "-", "1", "0">>,
   closePrice |-> <<"5", "0", "0", "0", "0", "0">>]

\* an ISO-shaped sale date with month 13
CountyBadDate ==
  [id |-> "c5", dataMode |-> "PUBLIC_PROXY",
   parcelNbr |-> << >>,
   major |-> <<"1", "2", "3", "4", "5", "6">>, minor |-> <<"0", "0", "1", "0">>,
   saleDate |-> <<"2", "0", "2", "4", "-", "1", "3", "-", "0", "1">>,
   closePrice |-> <<"5", "0", "0", "0", "0", "0">>]

\* a negative close price
CountyNegativePrice ==
  [id |-> "c6", dataMode |-> "PUBLIC_PROXY",
   parcelNbr |-> << >>,
   major |-> <<"1", "2", "3", "4", "5", "6">>, minor |-> <<"0", "0", "1", "0">>,
   saleDate |-> <<"2", "0", "2", "4", "-", "0", "1", "-", "1", "0">>,
   closePrice |-> <<"-", "1", "0", "0", "0">>]

\* a close price that is no number
CountyNoPrice ==
  [id |-> "c7", dataMode |-> "PUBLIC_PROXY",
   parcelNbr |-> << >>,
   major |-> <<"1", "2", "3", "4", "5", "6">>, minor |-> <<"0", "0", "1", "0">>,
   saleDate |-> <<"2", "0", "2", "4", "-", "0", "1", "-", "1", "0">>,
   closePrice |-> <<"T", "B", "D">>]

\* the lines the county file of a run is drawn from
CountyLines ==
  {CountyByParcelNbr, CountyLongParcel, CountyShortParcel,
   CountyBadDate, CountyNegativePrice, CountyNoPrice}

\* sold 2024-01-12 for 501000, listed at 480000
RealtorSold ==
  [APN |-> <<"1", "2", "3", "4", "5", "6", "-", "0", "0", "1", "0">>,
   Status |-> "SOLD", ListingNumber |-> "L100",
   ListingDate |-> <<"1", "2", "/", "1", "/", "2", "0", "2", "3">>,
   PendingDate |-> <<"1", "/", "2", "/", "2", "0", "2", "4">>,
   ContractualDate |-> << >>,
   SellingDate |-> <<"1", "/", "1", "2", "/", "2", "0", "2", "4", " ", "1", "2", ":", "0", "0", ":", "0", "0", " ", "A", "M">>,
   ListingPrice |-> <<"$", "4", "8", "0", ",", "0", "0", "0">>,
   OriginalPrice |-> <<"$", "4", "9", "0", ",", "0", "0", "0">>,
   SellingPrice |-> <<"$", "5", "0", "1", ",", "0", "0", "0">>,
   DOM |-> <<"7">>]

\* an active listing of the same parcel, listed 2023-12-01 at 520000
RealtorActive ==
  [APN |-> <<"1", "2", "3", "4", "5", "6", "0", "0", "1", "0">>,
   Status |-> "Active", ListingNumber |-> "L200",
   ListingDate |-> <<"2", "0", "2", "3", "-", "1", "2", "-", "0", "1">>,
   PendingDate |-> << >>,
   ContractualDate |-> << >>,
   SellingDate |-> << >>,
   ListingPrice |-> <<"5", "2", "0", "0", "0", "0">>,
   OriginalPrice |-> << >>,
   SellingPrice |-> << >>,
   DOM |-> <<"4", "0">>]

\* a sold record whose APN has 9 digits
RealtorShortApn ==
  [APN |-> <<"1", "2", "3", "4", "5", "0", "0", "1", "0">>,
   Status |-> "Sold", ListingNumber |-> "L300",
   ListingDate |-> << >>,
   PendingDate |-> << >>,
   ContractualDate |-> << >>,
   SellingDate |-> <<"2", "0", "2", "4", "-", "0", "1", "-", "1", "0">>,
   ListingPrice |-> << >>,
   OriginalPrice |-> << >>,
   SellingPrice |-> <<"5", "0", "0", "0", "0", "0">>,
   DOM |-> << >>]

\* sold 2024-01-12 for 3000
RealtorCheap ==
  [APN |-> <<"1", "2", "3", "4", "5", "6", "0", "0", "1", "0">>,
   Status |-> "Sold", ListingNumber |-> "L400",
   ListingDate |-> << >>,
   PendingDate |-> << >>,
   ContractualDate |-> << >>,
   SellingDate |-> <<"2", "0", "2", "4", "-", "0", "1", "-", "1", "2">>,
   ListingPrice |-> << >>,
   OriginalPrice |-> << >>,
   SellingPrice |-> <<"3", "0", "0", "0">>,
   DOM |-> << >>]

RealtorLines == {RealtorSold, RealtorActive, RealtorShortApn, RealtorCheap}

SeqsUpTo(S, n) == UNION {[1..k -> S] : k \in 0..n}

BaseHeadersFull ==
  {"dataMode", "id", "address", "type", "parcelNbr", "major", "minor", "saleDate", "closePrice"}

RealtorHeadersFull ==
  {REQUIRED_REALTOR_COLUMNS[i] : i \in 1..Len(REQUIRED_REALTOR_COLUMNS)} \cup {"Listing Number"}

CsvFile(name, headers, lines) ==
  [file |-> name, isCsv |-> TRUE, isDotFile |-> FALSE, headers |-> headers, lines |-> lines]

BaseFile(headers, lines) == [exists |-> TRUE, headers |-> headers, lines |-> lines]

\* the directory listings of the runs that read rows: one brokerage file, or two
\* of which the first holds one line
RealtorDirs ==
  {<<CsvFile("NE Seattle Sale Stats.csv", RealtorHeadersFull, l)>> :
     l \in SeqsUpTo(RealtorLines, MaxRealtor)}
  \cup
  {<<CsvFile("NE Seattle Sale Stats.csv", RealtorHeadersFull, p[1]),
     CsvFile("NW Seattle Sale Stats.csv", RealtorHeadersFull, p[2])>> :
     p \in {q \in SeqsUpTo(RealtorLines, MaxRealtor) \X SeqsUpTo(RealtorLines, MaxRealtor) :
              Len(q[1]) = 1 /\ Len(q[2]) >= 1 /\ Len(q[1]) + Len(q[2]) <= MaxRealtor}}

CompleteInputs ==
  {[base |-> BaseFile(BaseHeadersFull, cl), dirExists |-> TRUE, files |-> d] :
     cl \in SeqsUpTo(CountyLines, MaxCounty), d \in RealtorDirs}

\* inputs with something missing, each over one county line and one brokerage line
DefectiveInputs ==
  LET base == BaseFile(BaseHeadersFull, <<CountyByMajorMinor>>)
      good == CsvFile("NE Seattle Sale Stats.csv", RealtorHeadersFull, <<RealtorSold>>)
  IN {[base |-> [exists |-> FALSE, headers |-> {}, lines |-> << >>],
       dirExists |-> TRUE, files |-> <<good>>],
      [base |-> base, dirExists |-> FALSE, files |-> << >>],
      [base |-> base, dirExists |-> TRUE, files |-> << >>],
      [base |-> base, dirExists |-> TRUE,
       files |-> <<[good EXCEPT !.file = "notes.txt", !.isCsv = FALSE],
                   [good EXCEPT !.file = ".NE Seattle Sale Stats.csv", !.isDotFile = TRUE]>>],
      [base |-> base, dirExists |-> TRUE,
       files |-> <<[good EXCEPT !.headers = {"Listing Number", "Address"}]>>],
      [base |-> base, dirExists |-> TRUE,
       files |-> <<good,
                   CsvFile("NW Seattle Sale Stats.csv",
                           RealtorHeadersFull \ {"CDOM", "Selling Price"}, <<RealtorSold>>)>>],
      [base |-> BaseFile(BaseHeadersFull \ {"closePrice"}, <<CountyByMajorMinor>>),
       dirExists |-> TRUE, files |-> <<good>>]}

PreviousFile == [state |-> "previous", rows |-> << >>]

PreviousReport == [state |-> "previous", counts |-> << >>]

Init ==
  /\ pc = "start"
  /\ fsys \in CompleteInputs \cup DefectiveInputs
  /\ outputFile = PreviousFile
  /\ reportFile = PreviousReport
  /\ rows = << >>
  /\ mlsRows = << >>
  /\ used = {}
  /\ cursor = 1
  /\ merged = << >>
  /\ trace = << >>
  /\ matched = 0
  /\ listingStubbed = 0
  /\ mlsOnlyRows = << >>
  /\ mlsOpenOnlyRows = << >>
  /\ probe = << >>
  /\ result = << >>

Next ==
  \/ FailMissingInput
  \/ FailRealtorRead
  \/ ReadInputs
  \/ MatchRow
  \/ SynthesizeClosed
  \/ SynthesizeOpen
  \/ WriteOutput
  \/ WriteReport

Spec == Init /\ [][Next]_vars

(***************************************************************************)
(* Properties of a run of main()                                           *)
(***************************************************************************)
\* the uids a county row took, by either strategy
ChosenUids(e) ==
  (IF e.closedUid # << >> THEN {e.closedUid[1]} ELSE {})
  \cup (IF e.stubUid # << >> THEN {e.stubUid[1]} ELSE {})

\* C1: no realtor record (by uid) is the match of more than one county row,
\* closed-sale matches and listing-stub matches counted together.
Exclusivity ==
  \A i, j \in 1..Len(trace) :
    i # j => ChosenUids(trace[i]) \cap ChosenUids(trace[j]) = {}

\* two county rows of which the second would have taken, from an empty
\* exclusion set, the record the first one took
ExclusivityWitness ==
  /\ Len(trace) = 2
  /\ trace[1].closedUid # << >>
  /\ chooseBestMatch(rows[2], mlsClosedByApn(mlsRows, rows[2].parcel), {}) # << >>
  /\ chooseBestMatch(rows[2], mlsClosedByApn(mlsRows, rows[2].parcel), {})[1].candidate.uid
       = trace[1].closedUid[1]

\* the join method of an output row, from what the matcher took
MethodOf(e) ==
  IF e.closedUid # << >> THEN "APN_PRICE_DATE_WINDOW"
  ELSE IF e.stubUid # << >> THEN "APN_LISTING_STUB"
  ELSE ""

\* C4: a county row has no output row before it is processed; the closed
\* matcher runs first, the stub matcher runs exactly when the closed matcher
\* found nothing, the row never takes a closed match and a stub match, and its
\* join method is the one of the three that tells what it took.
RowStateMachine ==
  /\ Len(trace) = Len(merged)
  /\ pc = "match" => Len(merged) = cursor - 1
  /\ \A i \in 1..Len(trace) :
       /\ trace[i].triedClosed
       /\ trace[i].triedStub <=> (trace[i].closedUid = << >>)
       /\ ~(trace[i].closedUid # << >> /\ trace[i].stubUid # << >>)
       /\ merged[i].mlsJoinMethod = MethodOf(trace[i])
       /\ merged[i].dataMode = IF MethodOf(trace[i]) = "" THEN rows[i].dataMode
                               ELSE "MLS_ENRICHED"

\* a finished run in which one county row took a closed match and another,
\* after its closed matching found nothing, took a listing stub
RowStateMachineWitness ==
  /\ pc = "done"
  /\ \E i, j \in 1..Len(trace) :
       /\ trace[i].closedUid # << >>
       /\ trace[j].triedStub /\ trace[j].stubUid # << >>

\* a run where the stub matcher ran and found nothing
RowStaysUnmatched ==
  /\ pc = "done"
  /\ \E i \in 1..Len(trace) :
       /\ trace[i].triedStub /\ trace[i].stubUid = << >>
       /\ mlsStubByApn(mlsRows, rows[i].parcel) # << >>

\* C5: a county row without a valid sale date, or whose close price is not
\* positive, is never matched: it takes no uid and stays PUBLIC_PROXY.
MatchingPrecondition ==
  \A i \in 1..Len(merged) :
    (toDate(rows[i].saleDateIso) = << >> \/ rows[i].closePriceN <= 0)
      => /\ ChosenUids(trace[i]) = {}
         /\ merged[i].mlsJoinMethod = ""
         /\ merged[i].dataMode = "PUBLIC_PROXY"

\* what the guard of lines 363 and 409 does keep from matching: a county row
\* without a valid sale date or with a close price of zero
MatchingPreconditionOfCode ==
  \A i \in 1..Len(merged) :
    (toDate(rows[i].saleDateIso) = << >> \/ rows[i].closePriceN = 0)
      => /\ ChosenUids(trace[i]) = {}
         /\ merged[i].mlsJoinMethod = ""
         /\ merged[i].dataMode = "PUBLIC_PROXY"

\* the digits of the parcel key of county line i, before the last 10 are taken
RawCountyDigits(i) ==
  LET cells == BaseCells(fsys.base.headers, fsys.base.lines[i])
  IN StripNonDigits(IF cells.parcelNbr # << >> THEN cells.parcelNbr
                    ELSE cells.major \o cells.minor)

RECURSIVE KeyedLineCount(_, _)
\* the number of brokerage lines, from file k on, whose APN has exactly 10 digits
KeyedLineCount(files, k) ==
  IF k > Len(files) THEN 0
  ELSE Len(SelectSeq(files[k].lines, LAMBDA l : Len(StripNonDigits(l.APN)) = ApnDigits))
       + KeyedLineCount(files, k + 1)

\* C6 as stated: a realtor line whose APN is not exactly 10 digits is no
\* candidate, a county row whose parcel key is not exactly 10 digits is never
\* matched, and a match pairs equal 10-digit keys.
KeyValidity ==
  pc \notin {"start", "error"} =>
    /\ \A k \in 1..Len(mlsRows) : Len(mlsRows[k].apn) = ApnDigits
    /\ Len(mlsRows) = KeyedLineCount(discoverRealtorFiles(fsys), 1)
    /\ \A i \in 1..Len(merged) :
         /\ Len(RawCountyDigits(i)) # ApnDigits => ChosenUids(trace[i]) = {}
         /\ \A u \in ChosenUids(trace[i]) : u[2] = rows[i].parcel /\ Len(u[2]) = ApnDigits

\* C6 as the code has it: a realtor line whose APN is not exactly 10 digits
\* is no candidate; a county row with fewer than 10 digits is never matched,
\* and one with more is keyed by its last 10 digits; a match pairs equal
\* 10-digit keys.
KeyValidityLastTen ==
  pc \notin {"start", "error"} =>
    /\ \A k \in 1..Len(mlsRows) : Len(mlsRows[k].apn) = ApnDigits
    /\ Len(mlsRows) = KeyedLineCount(discoverRealtorFiles(fsys), 1)
    /\ \A i \in 1..Len(merged) :
         LET digits == RawCountyDigits(i)
         IN /\ Len(digits) < ApnDigits =>
                 /\ rows[i].parcel = << >>
                 /\ ChosenUids(trace[i]) = {}
                 /\ merged[i].mlsJoinMethod = ""
            /\ Len(digits) >= ApnDigits =>
                 rows[i].parcel = SubSeq(digits, Len(digits) - ApnDigits + 1, Len(digits))
            /\ \A u \in ChosenUids(trace[i]) :
                 u[2] = rows[i].parcel /\ Len(u[2]) = ApnDigits

\* a county row and a brokerage line with the same 9 digits, the same date
\* and the same price, and the row ends unmatched
KeyValidityWitness ==
  /\ pc = "done"
  /\ Len(rows) >= 1
  /\ discoverRealtorFiles(fsys) # << >>
  /\ Len(RawCountyDigits(1)) < ApnDigits
  /\ merged[1].mlsJoinMethod = ""
  /\ \E n \in 1..Len(discoverRealtorFiles(fsys)[1].lines) :
       StripNonDigits(discoverRealtorFiles(fsys)[1].lines[n].APN) = RawCountyDigits(1)
  /\ Len(mlsRows) < Len(discoverRealtorFiles(fsys)[1].lines)

\* C7: the output rows are the county rows in source order, each once and
\* matched or not, then the closed-only rows, then the open-listing rows; the
\* output count is the sum of the three and never below the county count.
OutputAssembly ==
  /\ Len(merged) <= Len(rows)
  /\ \A i \in 1..Len(merged) : merged[i].origin = "county" /\ merged[i].id = <<rows[i].id>>
  /\ outputFile.state = "written" =>
       /\ Len(merged) = Len(rows)
       /\ outputFile.rows = merged \o mlsOnlyRows \o mlsOpenOnlyRows
       /\ \A j \in 1..Len(mlsOnlyRows) : mlsOnlyRows[j].origin = "mlsOnly"
       /\ \A j \in 1..Len(mlsOpenOnlyRows) : mlsOpenOnlyRows[j].origin = "mlsOpen"
       /\ Len(outputFile.rows) = Len(rows) + Len(mlsOnlyRows) + Len(mlsOpenOnlyRows)
       /\ Len(outputFile.rows) >= Len(rows)
  /\ reportFile.state = "written" =>
       /\ reportFile.counts[1].outputRows = Len(outputFile.rows)
       /\ reportFile.counts[1].outputRows
            = reportFile.counts[1].baseRows + reportFile.counts[1].mlsOnlySoldRowsAdded
              + reportFile.counts[1].mlsOnlyOpenRowsAdded
       /\ reportFile.counts[1].outputRows >= reportFile.counts[1].baseRows

\* a written output with an unmatched county row, an enriched one and a
\* synthesized row after them
OutputAssemblyWitness ==
  /\ pc = "done"
  /\ \E i, j \in 1..Len(merged) : merged[i].mlsJoinMethod = "" /\ merged[j].mlsJoinMethod # ""
  /\ Len(outputFile.rows) > Len(rows)

\* the signature of a closed realtor record (line 629)
SaleSignature(c) == <<c.apn, c.sellingDate, c.sellingPrice>>

\* C8: a closed realtor record whose (parcel key, sale date, sale price) is the
\* (parcel key, sale date, close price) of a county row as loaded gets no
\* MLS_SOLD_NOT_IN_COUNTY row, consumed by a match or not.
SignatureDedup ==
  pc \in {"synthOpen", "write", "report", "done"} =>
    LET closed == mlsClosedRows(mlsRows)
        signatures == knownCountySaleSignatures(rows)
    IN \A k \in 1..Len(closed) :
         SaleSignature(closed[k]) \in signatures
           => /\ \A j \in 1..Len(mlsOnlyRows) : mlsOnlyRows[j].id[5] # k
              /\ outputFile.state = "written" =>
                   \A j \in 1..Len(outputFile.rows) :
                     outputFile.rows[j].origin = "mlsOnly" => outputFile.rows[j].id[5] # k

\* a closed record that no county row consumed and whose signature is a
\* county row's
SignatureDedupWitness ==
  /\ pc = "done"
  /\ \E k \in 1..Len(mlsClosedRows(mlsRows)) :
       /\ mlsClosedRows(mlsRows)[k].uid \notin used
       /\ SaleSignature(mlsClosedRows(mlsRows)[k]) \in knownCountySaleSignatures(rows)

\* the columns the county file must have (refresh_data_pipeline.js, lines 114-119)
REQUIRED_PUBLIC_COLUMNS == <<"id", "address", "type", "closePrice">>

\* an input that misses a required file, a directory, a brokerage CSV or a
\* required column
InputFatal(f) ==
  \/ MissingInput(f)
  \/ RealtorReadThrows(f)
  \/ \E k \in 1..Len(REQUIRED_PUBLIC_COLUMNS) : REQUIRED_PUBLIC_COLUMNS[k] \notin f.base.headers

\* C10: with a required file, directory or column missing, the build ends in
\* an error and writes neither the output CSV nor the report.
FatalBeforeWrite ==
  InputFatal(fsys) =>
    /\ outputFile = PreviousFile
    /\ reportFile = PreviousReport
    /\ pc # "done"

\* the part of C10 the builder keeps: a missing file or directory, no
\* brokerage CSV, or a brokerage file without its header row or a required
\* column
FatalBeforeWriteBrokerage ==
  (MissingInput(fsys) \/ RealtorReadThrows(fsys)) =>
    /\ outputFile = PreviousFile
    /\ reportFile = PreviousReport
    /\ pc \in {"start", "error"}

(***************************************************************************)
(* The matchers and the tag function applied on their own                  *)
(***************************************************************************)
\* the most candidates of a probe of a matcher
MaxCandidates == 2

\* the largest day count of a probe of buildHotMarketTag
MaxDays == 12

\* the pipeline is idle while a function is probed
PipelineIdle ==
  /\ fsys = [base |-> [exists |-> FALSE, headers |-> {}, lines |-> << >>],
             dirExists |-> FALSE, files |-> << >>]
  /\ outputFile = PreviousFile
  /\ reportFile = PreviousReport
  /\ rows = << >>
  /\ mlsRows = << >>
  /\ used = {}
  /\ cursor = 1
  /\ merged = << >>
  /\ trace = << >>
  /\ matched = 0
  /\ listingStubbed = 0
  /\ mlsOnlyRows = << >>
  /\ mlsOpenOnlyRows = << >>

\* the county row of a probe, as readBaseRows loads its line
ProbeRow(p) == readBaseRows(BaseFile(BaseHeadersFull, <<p.base>>))[1]

\* the realtor records of a probe, as readRealtorRows loads its lines
ProbeRecords(p) ==
  readRealtorRows(
    <<CsvFile("NE Seattle Sale Stats.csv", RealtorHeadersFull, p.lines)>>
    \o (IF "more" \in DOMAIN p
        THEN <<CsvFile("NW Seattle Sale Stats.csv", RealtorHeadersFull, p.more)>>
        ELSE << >>))

\* parcel 123456-0010 sold 2024-01-10 for 30000000
CountyEstate == [CountyByMajorMinor EXCEPT !.id = "c8", !.closePrice = <<"3", "0", "0", "0", "0", "0", "0", "0">>]

\* parcel 123456-0010 sold 2024-01-10 for 800000
CountyMidPrice == [CountyByMajorMinor EXCEPT !.id = "c9", !.closePrice = <<"8", "0", "0", "0", "0", "0">>]

\* sale dates 0, 1, 2 and 60 days after 2024-01-10
ProbeSellingDates ==
  {<<"2", "0", "2", "4", "-", "0", "1", "-", "1", "0">>,
   <<"2", "0", "2", "4", "-", "0", "1", "-", "1", "1">>,
   <<"2", "0", "2", "4", "-", "0", "1", "-", "1", "2">>,
   <<"2", "0", "2", "4", "-", "0", "3", "-", "1", "0">>}

ProbeSellingPrices ==
  {<<"5", "0", "0", "0", "0", "0">>,
   <<"5", "0", "4", "0", "0", "0">>,
   <<"3", "0", "0", "0", "0", "0", "0", "0">>,
   <<"3", "0", "1", "4", "0", "0", "0", "0">>}

\* sold records of parcel 123456-0010
ProbeSoldLines ==
  {[RealtorCheap EXCEPT !.SellingDate = d, !.SellingPrice = p] :
     d \in ProbeSellingDates, p \in ProbeSellingPrices}

MatchProbes ==
  {[base |-> b, lines |-> l] :
     b \in {CountyByMajorMinor, CountyEstate},
     l \in SeqsUpTo(ProbeSoldLines, MaxCandidates)}

\* the candidates main() hands to chooseBestMatch for the county row (line 475)
ProbeClosedCandidates(p) == mlsClosedByApn(ProbeRecords(p), ProbeRow(p).parcel)

InitMatch ==
  /\ pc = "call"
  /\ probe \in MatchProbes
  /\ result = << >>
  /\ PipelineIdle

\* chooseBestMatch applied to the probe, from an empty exclusion set
ApplyChooseBestMatch ==
  /\ pc = "call"
  /\ result' = <<chooseBestMatch(ProbeRow(probe), ProbeClosedCandidates(probe), {})>>
  /\ pc' = "returned"
  /\ UNCHANGED <<fsys, outputFile, reportFile, rows, mlsRows, used, cursor, merged, trace,
                 matched, listingStubbed, mlsOnlyRows, mlsOpenOnlyRows, probe>>

NextMatch == ApplyChooseBestMatch

SpecMatch == InitMatch /\ [][NextMatch]_vars

\* listing dates 0, 10 and 12 days before 2024-01-10
ProbeListingDates ==
  {<<"2", "0", "2", "4", "-", "0", "1", "-", "1", "0">>,
   <<"2", "0", "2", "3", "-", "1", "2", "-", "3", "1">>,
   <<"2", "0", "2", "3", "-", "1", "2", "-", "2", "9">>}

ProbeListingPrices ==
  {<<"8", "0", "0", "0", "0", "0">>,
   <<"8", "5", "0", "0", "0", "0">>,
   <<"5", "0", "0", "0", "0", "0">>}

\* open listings of parcel 123456-0010
ProbeOpenLines ==
  {[RealtorActive EXCEPT !.Status = s, !.ListingDate = d, !.ListingPrice = p] :
     s \in {"Pending", "Active"}, d \in ProbeListingDates, p \in ProbeListingPrices}

StubProbes ==
  {[base |-> CountyMidPrice, lines |-> l] : l \in SeqsUpTo(ProbeOpenLines, MaxCandidates)}

\* the candidates main() hands to chooseBestListingStub (line 537)
ProbeStubCandidates(p) == mlsStubByApn(ProbeRecords(p), ProbeRow(p).parcel)

InitStub ==
  /\ pc = "call"
  /\ probe \in StubProbes
  /\ result = << >>
  /\ PipelineIdle

\* chooseBestListingStub applied to the probe, from an empty exclusion set
ApplyChooseBestListingStub ==
  /\ pc = "call"
  /\ result' = <<chooseBestListingStub(ProbeRow(probe), ProbeStubCandidates(probe), {})>>
  /\ pc' = "returned"
  /\ UNCHANGED <<fsys, outputFile, reportFile, rows, mlsRows, used, cursor, merged, trace,
                 matched, listingStubbed, mlsOnlyRows, mlsOpenOnlyRows, probe>>

NextStub == ApplyChooseBestListingStub

SpecStub == InitStub /\ [][NextStub]_vars

\* a DOM (Math.round(num(domRaw)), line 318) and a dayDiff or null (line 519)
TagProbes ==
  {[dom |-> d, daysToPending |-> x] :
     d \in (0 - MaxDays)..MaxDays,
     x \in {<< >>} \cup {<<n>> : n \in (0 - MaxDays)..MaxDays}}

InitTag ==
  /\ pc = "call"
  /\ probe \in TagProbes
  /\ result = << >>
  /\ PipelineIdle

ApplyBuildHotMarketTag ==
  /\ pc = "call"
  /\ result' = <<buildHotMarketTag(probe.dom, probe.daysToPending)>>
  /\ pc' = "returned"
  /\ UNCHANGED <<fsys, outputFile, reportFile, rows, mlsRows, used, cursor, merged, trace,
                 matched, listingStubbed, mlsOnlyRows, mlsOpenOnlyRows, probe>>

NextTag == ApplyBuildHotMarketTag

SpecTag == InitTag /\ [][NextTag]_vars

(***************************************************************************)
(* Properties of the functions                                             *)
(***************************************************************************)
\* the score records of the candidates of a probe that pass the filters of
\* chooseBestMatch
PassingMatches(p) ==
  {MatchCandidate(ProbeRow(p), ProbeClosedCandidates(p)[i], {})[1] :
     i \in {k \in 1..Len(ProbeClosedCandidates(p)) :
              MatchCandidate(ProbeRow(p), ProbeClosedCandidates(p)[k], {}) # << >>}}

\* (dateLag, priceDiff) of a is not after that of b
LagThenPrice(a, b) ==
  \/ a.dateLag < b.dateLag
  \/ (a.dateLag = b.dateLag /\ a.priceDiff <= b.priceDiff)

\* C2: chooseBestMatch returns a candidate exactly when one passes the
\* filters, and the one it returns has the lexicographically smallest
\* (dateLag, priceDiff) among those that pass.
BestMatchLexicographic ==
  pc = "returned" =>
    /\ (result[1] = << >>) <=> (PassingMatches(probe) = {})
    /\ result[1] # << >> =>
         /\ [dateLag |-> result[1][1].dateLag, priceDiff |-> result[1][1].priceDiff]
              \in {[dateLag |-> m.dateLag, priceDiff |-> m.priceDiff] :
                     m \in PassingMatches(probe)}
         /\ \A m \in PassingMatches(probe) : LagThenPrice(result[1][1], m)

\* what chooseBestMatch does return: a passing candidate of the smallest score
BestMatchSmallestScore ==
  pc = "returned" =>
    /\ (result[1] = << >>) <=> (PassingMatches(probe) = {})
    /\ result[1] # << >> =>
         /\ result[1][1] \in PassingMatches(probe)
         /\ \A m \in PassingMatches(probe) : result[1][1].score <= m.score

\* two passing candidates, and the one returned has the larger date lag
BestMatchLargerLag ==
  /\ pc = "returned"
  /\ result[1] # << >>
  /\ \E m \in PassingMatches(probe) : m.dateLag < result[1][1].dateLag

\* the score records of the candidates of a probe that pass the filters of
\* chooseBestListingStub
PassingStubs(p) ==
  {StubCandidate(ProbeRow(p), ProbeStubCandidates(p)[i], {})[1] :
     i \in {k \in 1..Len(ProbeStubCandidates(p)) :
              StubCandidate(ProbeRow(p), ProbeStubCandidates(p)[k], {}) # << >>}}

\* (lagDays, status weight, priceDiff) of a is not after that of b
LagThenStatusThenPrice(a, b) ==
  \/ a.lagDays < b.lagDays
  \/ /\ a.lagDays = b.lagDays
     /\ statusStubWeight(a.candidate.status) < statusStubWeight(b.candidate.status)
  \/ /\ a.lagDays = b.lagDays
     /\ statusStubWeight(a.candidate.status) = statusStubWeight(b.candidate.status)
     /\ a.priceDiff <= b.priceDiff

\* C3: chooseBestListingStub returns, among the candidates that pass the stub
\* filters, the smallest in the order (lag, status weight, price difference).
ListingStubOrder ==
  pc = "returned" =>
    /\ (result[1] = << >>) <=> (PassingStubs(probe) = {})
    /\ result[1] # << >> =>
         /\ result[1][1] \in PassingStubs(probe)
         /\ \A m \in PassingStubs(probe) : LagThenStatusThenPrice(result[1][1], m)

\* what chooseBestListingStub does return: a passing candidate of the smallest score
ListingStubSmallestScore ==
  pc = "returned" =>
    /\ (result[1] = << >>) <=> (PassingStubs(probe) = {})
    /\ result[1] # << >> =>
         /\ result[1][1] \in PassingStubs(probe)
         /\ \A m \in PassingStubs(probe) : result[1][1].score <= m.score

\* the status weights the code gives (lines 396-404)
StatusWeights ==
  /\ statusStubWeight("Pending") = 0
  /\ statusStubWeight("Pending Inspection") = 1
  /\ statusStubWeight("Pending BU Requested") = 2
  /\ statusStubWeight("Contingent") = 3
  /\ statusStubWeight("Active") = 4
  /\ statusStubWeight("Expired") = 5

MaxColumns == 3

Range(s) == {s[i] : i \in 1..Len(s)}

\* a column test that stops at the first missing column
FirstMissingOnly(headers, required) ==
  IF SelectSeq(required, LAMBDA c : c \notin Range(headers)) = << >> THEN << >>
  ELSE <<Head(SelectSeq(required, LAMBDA c : c \notin Range(headers)))>>

\* hasColumns (refresh_data_pipeline.js, lines 188-191)
hasColumns(headers, required) == SelectSeq(required, LAMBDA c : c \notin Range(headers))

\* the column names the probes of hasColumns are made of
ColumnNames == {"APN", "Status", "DOM", "CDOM"}

ColumnProbes ==
  {[headers |-> h, required |-> r] :
     h \in SeqsUpTo(ColumnNames, MaxColumns), r \in SeqsUpTo(ColumnNames, MaxColumns)}

\* a brokerage file whose header row has, of ColumnNames, the headers of the probe
ProbeRealtorFile(p) ==
  CsvFile("NE Seattle Sale Stats.csv",
          (RealtorHeadersFull \ ColumnNames) \cup Range(p.headers), <<RealtorSold>>)

InitColumns ==
  /\ pc = "call"
  /\ probe \in ColumnProbes
  /\ result = << >>
  /\ PipelineIdle

ApplyHasColumns ==
  /\ pc = "call"
  /\ result' = <<[op |-> "hasColumns", value |-> hasColumns(probe.headers, probe.required)]>>
  /\ pc' = "returned"
  /\ UNCHANGED <<fsys, outputFile, reportFile, rows, mlsRows, used, cursor, merged, trace,
                 matched, listingStubbed, mlsOnlyRows, mlsOpenOnlyRows, probe>>

\* the columns the error of line 296 lists for the file of the probe
ApplyMissingRequired ==
  /\ pc = "call"
  /\ result' = <<[op |-> "missingRequired",
                  value |-> MissingRequired(ProbeRealtorFile(probe))]>>
  /\ pc' = "returned"
  /\ UNCHANGED <<fsys, outputFile, reportFile, rows, mlsRows, used, cursor, merged, trace,
                 matched, listingStubbed, mlsOnlyRows, mlsOpenOnlyRows, probe>>

NextColumns == ApplyHasColumns \/ ApplyMissingRequired

SpecColumns == InitColumns /\ [][NextColumns]_vars

\* C11: hasColumns returns the required columns absent from the headers,
\* every one of them, no present one, in the order of the required list; the
\* columns listed by the brokerage-file error are likewise all the missing
\* required columns: the k-th column returned is the k-th missing one.
MissingColumnsReported ==
  pc = "returned" =>
    LET required == IF result[1].op = "hasColumns" THEN probe.required
                    ELSE REQUIRED_REALTOR_COLUMNS
        present == IF result[1].op = "hasColumns" THEN Range(probe.headers)
                   ELSE ProbeRealtorFile(probe).headers
        missingAt == {i \in 1..Len(required) : required[i] \notin present}
    IN /\ Len(result[1].value) = Cardinality(missingAt)
       /\ \A i \in missingAt :
            result[1].value[Cardinality({j \in missingAt : j <= i})] = required[i]

\* hasColumns applied to three required columns of which the first and the
\* third are missing and the second is present
MissingColumnsWitness ==
  /\ pc = "returned"
  /\ result[1].op = "hasColumns"
  /\ Len(probe.required) = 3
  /\ probe.required[2] \in Range(probe.headers)
  /\ Len(result[1].value) = 2
  /\ result[1].value = <<probe.required[1], probe.required[3]>>

(***************************************************************************)
(* The build run twice on the same files                                   *)
(***************************************************************************)
\* a record with status Sold and no selling date or price
RealtorSoldNoPrice ==
  [RealtorCheap EXCEPT !.ListingNumber = "L500", !.SellingDate = << >>, !.SellingPrice = << >>]

\* the orders in which readdirSync may list the files of a directory
Reorderings(s) ==
  {[i \in 1..Len(s) |-> s[p[i]]] :
     p \in {q \in [1..Len(s) -> 1..Len(s)] :
              \A i, j \in 1..Len(s) : q[i] = q[j] => i = j}}

RerunDirs ==
  {<<CsvFile("NE Seattle Sale Stats.csv", RealtorHeadersFull, l)>> :
     l \in SeqsUpTo({RealtorSold, RealtorActive, RealtorCheap, RealtorSoldNoPrice}, MaxRealtor)}
  \cup
  {<<CsvFile("NE Seattle Sale Stats.csv", RealtorHeadersFull, <<a>>),
     CsvFile("NW Seattle Sale Stats.csv", RealtorHeadersFull, l)>> :
     a \in {RealtorSold, RealtorActive, RealtorCheap, RealtorSoldNoPrice},
     l \in SeqsUpTo({RealtorSold, RealtorActive, RealtorCheap, RealtorSoldNoPrice},
                    MaxRealtor - 1) \ {<< >>}}

RerunInputs ==
  {[base |-> BaseFile(BaseHeadersFull, cl), dirExists |-> TRUE, files |-> d] :
     cl \in SeqsUpTo({CountyByParcelNbr, CountyLongParcel}, MaxCounty), d \in RerunDirs}

InitRerun ==
  /\ pc = "start"
  /\ fsys \in RerunInputs
  /\ outputFile = PreviousFile
  /\ reportFile = PreviousReport
  /\ rows = << >>
  /\ mlsRows = << >>
  /\ used = {}
  /\ cursor = 1
  /\ merged = << >>
  /\ trace = << >>
  /\ matched = 0
  /\ listingStubbed = 0
  /\ mlsOnlyRows = << >>
  /\ mlsOpenOnlyRows = << >>
  /\ probe = << >>
  /\ result = << >>

\* main() is started again on the same files: the first run's output rows and
\* assignment are kept in probe, and the directory is listed in any order
Rerun ==
  /\ pc = "done"
  /\ probe = << >>
  /\ probe' = <<[rows |-> outputFile.rows, trace |-> trace]>>
  /\ fsys' \in {[fsys EXCEPT !.files = o] : o \in Reorderings(fsys.files)}
  /\ pc' = "start"
  /\ rows' = << >>
  /\ mlsRows' = << >>
  /\ used' = {}
  /\ cursor' = 1
  /\ merged' = << >>
  /\ trace' = << >>
  /\ matched' = 0
  /\ listingStubbed' = 0
  /\ mlsOnlyRows' = << >>
  /\ mlsOpenOnlyRows' = << >>
  /\ UNCHANGED <<outputFile, reportFile, result>>

NextRerun ==
  \/ ReadInputs
  \/ MatchRow
  \/ SynthesizeClosed
  \/ SynthesizeOpen
  \/ WriteOutput
  \/ WriteReport
  \/ Rerun

SpecRerun == InitRerun /\ [][NextRerun]_vars

\* C12: a second run on the same county rows and the same brokerage files
\* writes the same output rows in the same order, with the same match
\* assignment and the same synthesized row ids.
Determinism ==
  (pc \in {"report", "done"} /\ probe # << >>) =>
    /\ outputFile.rows = probe[1].rows
    /\ trace = probe[1].trace

\* a second run over two brokerage files that the directory listed in reverse
\* name order, each of which gave a synthesized row
DeterminismWitness ==
  /\ pc = "done"
  /\ probe # << >>
  /\ Len(fsys.files) = 2
  /\ fsys.files[1].file = "NW Seattle Sale Stats.csv"
  /\ Len(mlsOnlyRows) + Len(mlsOpenOnlyRows) = 2
  /\ Len(outputFile.rows) = Len(rows) + 2

(***************************************************************************)
(* num applied on its own                                                  *)
(***************************************************************************)
\* the longest text of a probe of num
MaxChars == 4

NumProbeChars == {"1", "5", ".", "-", "$", "b"}

\* undefined, null and "" are << >>
NumProbes == SeqsUpTo(NumProbeChars, MaxChars)

InitNum ==
  /\ pc = "call"
  /\ probe \in NumProbes
  /\ result = << >>
  /\ PipelineIdle

ApplyNum ==
  /\ pc = "call"
  /\ result' = <<num(probe)>>
  /\ pc' = "returned"
  /\ UNCHANGED <<fsys, outputFile, reportFile, rows, mlsRows, used, cursor, merged, trace,
                 matched, listingStubbed, mlsOnlyRows, mlsOpenOnlyRows, probe>>

NextNum == ApplyNum

SpecNum == InitNum /\ [][NextNum]_vars

\* the places d of an unsigned text u such that u is d digits, or d digits, a
\* dot and digits, with a digit somewhere: the decimal numerals Number() reads
NumeralSplits(u) ==
  {d \in 0..Len(u) :
     /\ AllDigits(SubSeq(u, 1, d))
     /\ \/ d = Len(u)
        \/ (u[d + 1] = "." /\ AllDigits(SubSeq(u, d + 2, Len(u))))
     /\ (d >= 1 \/ d + 2 <= Len(u))}

\* the value, in tenths, of the numeral u split at d
NumeralTenths(u, d) ==
  DigitsValue(SubSeq(u, 1, d)) * 10 + (IF d + 2 <= Len(u) THEN DigitVal(u[d + 2]) ELSE 0)

\* the value, in tenths, of a text of digits, dots and minus signs; 0 when
\* the text is no number
StrippedTenths(t) ==
  LET u == IF t # << >> /\ t[1] = "-" THEN Tail(t) ELSE t
  IN IF NumeralSplits(u) = {} THEN 0
     ELSE IF t[1] = "-" THEN 0 - NumeralTenths(u, CHOOSE d \in NumeralSplits(u) : TRUE)
     ELSE NumeralTenths(u, CHOOSE d \in NumeralSplits(u) : TRUE)

\* C13: num returns a number for every input: the value of the input with
\* every character but digits, dot and minus removed, and 0 when the input is
\* empty or what is left is no number; "$1,250,000" gives 1250000, and "",
\* undefined and "bad" give 0.  (Values are in tenths.)
NumNeverFails ==
  /\ num(<<"$", "1", ",", "2", "5", "0", ",", "0", "0", "0">>) = 12500000
  /\ num(<< >>) = 0
  /\ num(<<"b", "a", "d">>) = 0
  /\ pc = "returned" =>
       /\ result[1] \in Int
       /\ result[1] = StrippedTenths(SelectSeq(probe, LAMBDA c : c \in NumChars))

\* a currency text with a letter, a sign and a fraction: "-$1.5"
NumNeverFailsWitness ==
  /\ pc = "returned"
  /\ probe = <<"-", "$", "1", ".">>
  /\ result = <<0 - 10>>

\* a text that is no number once stripped: "1-5b" leaves "1-5"
NumOfGarbage ==
  /\ pc = "returned"
  /\ probe = <<"1", "-", "5", "b">>
  /\ result = <<0>>

(***************************************************************************)
(* safeCsv and parseCsvLine                                                *)
(***************************************************************************)
\* the most fields of a probed line and the most characters of a probed field
MaxFields == 2
MaxFieldChars == 2

Quote == "\""

\* an encoder that wraps a value in quotes without doubling the quotes in it
SafeCsvNoDoubling(v) ==
  IF \E i \in 1..Len(v) : v[i] \in {",", Quote, "\n"} THEN <<Quote>> \o v \o <<Quote>>
  ELSE v

\* s.replace(/"/g, "\"\"")
RECURSIVE DoubleQuotes(_)
DoubleQuotes(s) ==
  IF s = << >> THEN << >>
  ELSE IF Head(s) = Quote THEN <<Quote, Quote>> \o DoubleQuotes(Tail(s))
  ELSE <<Head(s)>> \o DoubleQuotes(Tail(s))

\* safeCsv (lines 113-117)
safeCsv(v) ==
  IF \E i \in 1..Len(v) : v[i] \in {",", Quote, "\n"}
  THEN <<Quote>> \o DoubleQuotes(v) \o <<Quote>>
  ELSE v

\* cells.join(",")
RECURSIVE JoinComma(_)
JoinComma(cells) ==
  IF cells = << >> THEN << >>
  ELSE IF Len(cells) = 1 THEN cells[1]
  ELSE cells[1] \o <<",">> \o JoinComma(Tail(cells))

\* the loop of parseCsvLine (lines 39-54) from character i on
RECURSIVE ParseFrom(_, _, _, _, _)
ParseFrom(line, i, cur, inQuotes, out) ==
  IF i > Len(line) THEN Append(out, Trim(cur))
  ELSE IF line[i] = Quote
    THEN IF inQuotes /\ i + 1 <= Len(line) /\ line[i + 1] = Quote
         THEN ParseFrom(line, i + 2, Append(cur, Quote), inQuotes, out)
         ELSE ParseFrom(line, i + 1, cur, ~inQuotes, out)
  ELSE IF line[i] = "," /\ ~inQuotes
    THEN ParseFrom(line, i + 1, << >>, inQuotes, Append(out, Trim(cur)))
  ELSE ParseFrom(line, i + 1, Append(cur, line[i]), inQuotes, out)

\* parseCsvLine (lines 35-57)
parseCsvLine(line) == ParseFrom(line, 1, << >>, FALSE, << >>)

CsvChars == {"a", ",", Quote, " "}

\* the line of the test of parseCsvLine and the cells it must give
TestLine == <<"A", "P", "N", ",", "\"", "A", "d", "d", "r", "e", "s", "s", ",", " ", "S", "e", "a", "t", "t", "l", "e", "\"", ",", "1", "2", "3", ",", "\"", "Q", "u", "o", "t", "e", "d", " ", "\"", "\"", "N", "a", "m", "e", "\"", "\"", "\"">>

TestCells == <<<<"A", "P", "N">>, <<"A", "d", "d", "r", "e", "s", "s", ",", " ", "S", "e", "a", "t", "t", "l", "e">>, <<"1", "2", "3">>, <<"Q", "u", "o", "t", "e", "d", " ", "\"", "N", "a", "m", "e", "\"">>>>

CsvFields == SeqsUpTo(CsvChars, MaxFieldChars) \cup {<<"a", "\n">>, <<"\n", "a", "\n", Quote>>, TestCells[2], TestCells[4]}

\* the fields that stand around the probed one
CsvNeighbours == {<< >>, <<"a">>, <<",">>, <<Quote>>}

\* lists of up to MaxFields fields: any one field among neighbours
CsvProbes ==
  {<< >>} \cup
  {[l EXCEPT ![k] = f] : <<l, k, f>> \in
     {<<l, k, f>> \in SeqsUpTo(CsvNeighbours, MaxFields) \X (1..MaxFields) \X CsvFields :
        k <= Len(l)}}

InitCsv ==
  /\ pc = "call"
  /\ probe \in CsvProbes
  /\ result = << >>
  /\ PipelineIdle

\* every field encoded and the encodings joined with commas
ApplySafeCsv ==
  /\ pc = "call"
  /\ result' = <<[encodings |-> [k \in 1..Len(probe) |-> safeCsv(probe[k])],
                  line |-> JoinComma([k \in 1..Len(probe) |-> safeCsv(probe[k])])]>>
  /\ pc' = "encoded"
  /\ UNCHANGED <<fsys, outputFile, reportFile, rows, mlsRows, used, cursor, merged, trace,
                 matched, listingStubbed, mlsOnlyRows, mlsOpenOnlyRows, probe>>

ApplyParseCsvLine ==
  /\ pc = "encoded"
  /\ result' = <<[encodings |-> result[1].encodings,
                  line |-> result[1].line,
                  fields |-> parseCsvLine(result[1].line)]>>
  /\ pc' = "parsed"
  /\ UNCHANGED <<fsys, outputFile, reportFile, rows, mlsRows, used, cursor, merged, trace,
                 matched, listingStubbed, mlsOnlyRows, mlsOpenOnlyRows, probe>>

NextCsv == ApplySafeCsv \/ ApplyParseCsvLine

SpecCsv == InitCsv /\ [][NextCsv]_vars

\* how many quotes a text has before place i
QuotesBefore(f, i) == Cardinality({j \in 1..(i - 1) : f[j] = Quote})

\* e is f between quotes, with every quote of f written twice
QuotedForm(f, e) ==
  /\ Len(e) = Len(f) + QuotesBefore(f, Len(f) + 1) + 2
  /\ e[1] = Quote
  /\ e[Len(e)] = Quote
  /\ \A i \in 1..Len(f) :
       /\ e[1 + i + QuotesBefore(f, i)] = f[i]
       /\ f[i] = Quote => e[2 + i + QuotesBefore(f, i)] = Quote

\* safeCsv quotes a value exactly when it holds a comma, a quote or a newline
EncodedAsSpecified ==
  pc \in {"encoded", "parsed"} =>
    \A k \in 1..Len(probe) :
      IF \E i \in 1..Len(probe[k]) : probe[k][i] \in {",", Quote, "\n"}
      THEN QuotedForm(probe[k], result[1].encodings[k])
      ELSE result[1].encodings[k] = probe[k]

\* a field without newlines and without white space at either end
PlainField(f) ==
  /\ \A i \in 1..Len(f) : f[i] # "\n"
  /\ f # << >> => (f[1] \notin WhitespaceChars /\ f[Len(f)] \notin WhitespaceChars)

\* C14 as stated: the encodings are as specified, and for EVERY list of such
\* fields parseCsvLine of the joined encodings is the list
CsvRoundTrip ==
  /\ parseCsvLine(TestLine) = TestCells
  /\ EncodedAsSpecified
  /\ (pc = "parsed" /\ \A k \in 1..Len(probe) : PlainField(probe[k])) =>
       result[1].fields = probe

\* C14: safeCsv wraps a value in quotes, with its quotes doubled, exactly when
\* it holds a comma, a quote or a newline, and for every list of AT LEAST ONE
\* field without newlines and without white space at either end parseCsvLine
\* of the comma-joined encodings is the list again.
CsvRoundTripNonEmpty ==
  /\ parseCsvLine(TestLine) = TestCells
  /\ EncodedAsSpecified
  /\ (pc = "parsed" /\ probe # << >> /\ \A k \in 1..Len(probe) : PlainField(probe[k])) =>
       result[1].fields = probe

\* a comma inside quotes and a doubled quote come back as they went in
CsvRoundTripWitness ==
  /\ pc = "parsed"
  /\ probe = <<<<"a", ",">>, <<Quote>>>>
  /\ result[1].line = <<Quote, "a", ",", Quote, ",", Quote, Quote, Quote, Quote>>
  /\ result[1].fields = probe

\* the list of no field is written as the empty line, which reads as one empty field
EmptyListComesBackAsOneField ==
  /\ pc = "parsed"
  /\ probe = << >>
  /\ result[1].line = << >>
  /\ result[1].fields = <<<< >>>>

(***************************************************************************)
(* The filters and the tie-break of the two matchers                       *)
(***************************************************************************)
\* sold on the county sale date 2024-01-10 for 500000
SoldExact ==
  [RealtorCheap EXCEPT !.ListingNumber = "S1", !.SellingDate = <<"2", "0", "2", "4", "-", "0", "1", "-", "1", "0">>,
                       !.SellingPrice = <<"5", "0", "0", "0", "0", "0">>]

\* sold 45 days later for 5000 more
SoldAtBothLimits ==
  [RealtorCheap EXCEPT !.ListingNumber = "S2", !.SellingDate = <<"2", "0", "2", "4", "-", "0", "2", "-", "2", "4">>,
                       !.SellingPrice = <<"5", "0", "5", "0", "0", "0">>]

\* sold 46 days later
SoldLate ==
  [RealtorCheap EXCEPT !.ListingNumber = "S3", !.SellingDate = <<"2", "0", "2", "4", "-", "0", "2", "-", "2", "5">>,
                       !.SellingPrice = <<"5", "0", "0", "0", "0", "0">>]

\* sold 45 days earlier
SoldEarlyAtLimit ==
  [RealtorCheap EXCEPT !.ListingNumber = "S4", !.SellingDate = <<"2", "0", "2", "3", "-", "1", "1", "-", "2", "6">>,
                       !.SellingPrice = <<"5", "0", "0", "0", "0", "0">>]

\* sold 46 days earlier
SoldEarly ==
  [RealtorCheap EXCEPT !.ListingNumber = "S5", !.SellingDate = <<"2", "0", "2", "3", "-", "1", "1", "-", "2", "5">>,
                       !.SellingPrice = <<"5", "0", "0", "0", "0", "0">>]

\* sold for 5001 more than 500000
SoldDear ==
  [RealtorCheap EXCEPT !.ListingNumber = "S6", !.SellingDate = <<"2", "0", "2", "4", "-", "0", "1", "-", "1", "0">>,
                       !.SellingPrice = <<"5", "0", "5", "0", "0", "1">>]

\* sold for 0.5% more than 30000000
SoldEstateAtLimit ==
  [RealtorCheap EXCEPT !.ListingNumber = "S7", !.SellingDate = <<"2", "0", "2", "4", "-", "0", "1", "-", "1", "0">>,
                       !.SellingPrice = <<"3", "0", "1", "5", "0", "0", "0", "0">>]

\* sold for a dollar more than that
SoldEstateDear ==
  [RealtorCheap EXCEPT !.ListingNumber = "S8", !.SellingDate = <<"2", "0", "2", "4", "-", "0", "1", "-", "1", "0">>,
                       !.SellingPrice = <<"3", "0", "1", "5", "0", "0", "0", "1">>]

\* sold in month 13
SoldNoSuchMonth ==
  [RealtorCheap EXCEPT !.ListingNumber = "S9", !.SellingDate = <<"2", "0", "2", "4", "-", "1", "3", "-", "0", "1">>,
                       !.SellingPrice = <<"5", "0", "0", "0", "0", "0">>]

\* sold a day later for 4000 more
SoldAbove ==
  [RealtorCheap EXCEPT !.ListingNumber = "S10", !.SellingDate = <<"2", "0", "2", "4", "-", "0", "1", "-", "1", "1">>,
                       !.SellingPrice = <<"5", "0", "4", "0", "0", "0">>]

\* sold a day later for 4000 less
SoldBelow ==
  [RealtorCheap EXCEPT !.ListingNumber = "S11", !.SellingDate = <<"2", "0", "2", "4", "-", "0", "1", "-", "1", "1">>,
                       !.SellingPrice = <<"4", "9", "6", "0", "0", "0">>]

\* pending, listed on the county sale date at 540000
OpenPending ==
  [RealtorActive EXCEPT !.ListingNumber = "O1", !.Status = "Pending",
                        !.ListingDate = <<"2", "0", "2", "4", "-", "0", "1", "-", "1", "0">>,
                        !.PendingDate = << >>,
                        !.ContractualDate = << >>,
                        !.ListingPrice = <<"5", "4", "0", "0", "0", "0">>]

\* active, listed on the county sale date at 500000
OpenActive ==
  [RealtorActive EXCEPT !.ListingNumber = "O2", !.Status = "Active",
                        !.ListingDate = <<"2", "0", "2", "4", "-", "0", "1", "-", "1", "0">>,
                        !.PendingDate = << >>,
                        !.ContractualDate = << >>,
                        !.ListingPrice = <<"5", "0", "0", "0", "0", "0">>]

\* listed 120 days before the sale at half the close price
OpenAtBothLimits ==
  [RealtorActive EXCEPT !.ListingNumber = "O3", !.Status = "Active",
                        !.ListingDate = <<"2", "0", "2", "3", "-", "0", "9", "-", "1", "2">>,
                        !.PendingDate = << >>,
                        !.ContractualDate = << >>,
                        !.ListingPrice = <<"2", "5", "0", "0", "0", "0">>]

\* listed 121 days before the sale
OpenStale ==
  [RealtorActive EXCEPT !.ListingNumber = "O4", !.Status = "Active",
                        !.ListingDate = <<"2", "0", "2", "3", "-", "0", "9", "-", "1", "1">>,
                        !.PendingDate = << >>,
                        !.ContractualDate = << >>,
                        !.ListingPrice = <<"5", "0", "0", "0", "0", "0">>]

\* listed the day after the sale
OpenAfterSale ==
  [RealtorActive EXCEPT !.ListingNumber = "O5", !.Status = "Active",
                        !.ListingDate = <<"2", "0", "2", "4", "-", "0", "1", "-", "1", "1">>,
                        !.PendingDate = << >>,
                        !.ContractualDate = << >>,
                        !.ListingPrice = <<"5", "0", "0", "0", "0", "0">>]

\* listed a dollar under half the close price
OpenCheap ==
  [RealtorActive EXCEPT !.ListingNumber = "O6", !.Status = "Active",
                        !.ListingDate = <<"2", "0", "2", "4", "-", "0", "1", "-", "1", "0">>,
                        !.PendingDate = << >>,
                        !.ContractualDate = << >>,
                        !.ListingPrice = <<"2", "4", "9", "9", "9", "9">>]

\* listed at one and a half times the close price
OpenDearAtLimit ==
  [RealtorActive EXCEPT !.ListingNumber = "O7", !.Status = "Active",
                        !.ListingDate = <<"2", "0", "2", "4", "-", "0", "1", "-", "1", "0">>,
                        !.PendingDate = << >>,
                        !.ContractualDate = << >>,
                        !.ListingPrice = <<"7", "5", "0", "0", "0", "0">>]

\* listed a dollar above that
OpenDear ==
  [RealtorActive EXCEPT !.ListingNumber = "O8", !.Status = "Active",
                        !.ListingDate = <<"2", "0", "2", "4", "-", "0", "1", "-", "1", "0">>,
                        !.PendingDate = << >>,
                        !.ContractualDate = << >>,
                        !.ListingPrice = <<"7", "5", "0", "0", "0", "1">>]

\* listed without a price
OpenNoPrice ==
  [RealtorActive EXCEPT !.ListingNumber = "O9", !.Status = "Active",
                        !.ListingDate = <<"2", "0", "2", "4", "-", "0", "1", "-", "1", "0">>,
                        !.PendingDate = << >>,
                        !.ContractualDate = << >>,
                        !.ListingPrice = << >>]

\* listed before the sale, pending the day after it
OpenPendingAfterSale ==
  [RealtorActive EXCEPT !.ListingNumber = "O10", !.Status = "Pending",
                        !.ListingDate = <<"2", "0", "2", "3", "-", "1", "2", "-", "3", "1">>,
                        !.PendingDate = <<"2", "0", "2", "4", "-", "0", "1", "-", "1", "1">>,
                        !.ContractualDate = << >>,
                        !.ListingPrice = <<"5", "0", "0", "0", "0", "0">>]

\* contractual 10 days before the sale, listed the day after it
OpenContractual ==
  [RealtorActive EXCEPT !.ListingNumber = "O11", !.Status = "Active",
                        !.ListingDate = <<"2", "0", "2", "4", "-", "0", "1", "-", "1", "1">>,
                        !.PendingDate = << >>,
                        !.ContractualDate = <<"2", "0", "2", "3", "-", "1", "2", "-", "3", "1">>,
                        !.ListingPrice = <<"5", "0", "0", "0", "0", "0">>]

SelectSoldLines ==
  {SoldExact, SoldAtBothLimits, SoldLate, SoldEarlyAtLimit, SoldEarly, SoldDear,
   SoldEstateAtLimit, SoldEstateDear, SoldNoSuchMonth, SoldAbove, SoldBelow}

SelectOpenLines ==
  {OpenPending, OpenActive, OpenAtBothLimits, OpenStale, OpenAfterSale, OpenCheap,
   OpenDearAtLimit, OpenDear, OpenNoPrice, OpenPendingAfterSale, OpenContractual}

\* a county row of parcel 123456-0010 sold 2024-01-10, and the lines of two
\* brokerage files, the second of at most one line
SelectProbes ==
  {[base |-> b, lines |-> l, more |-> m] : <<b, l, m>> \in
     {<<b, l, m>> \in {CountyByMajorMinor, CountyEstate}
                      \X SeqsUpTo(SelectSoldLines \cup SelectOpenLines, MaxCandidates)
                      \X SeqsUpTo(SelectSoldLines \cup SelectOpenLines, 1) :
        Len(l) + Len(m) <= MaxCandidates}}

InitSelect ==
  /\ pc = "call"
  /\ probe \in SelectProbes
  /\ result = << >>
  /\ PipelineIdle

NextSelect == ApplyChooseBestMatch \/ ApplyChooseBestListingStub

SpecSelect == InitSelect /\ [][NextSelect]_vars

\* C15: a record selected as a closed match has a parseable sale date and a
\* positive sale price, is at most 45 days from the county sale date either
\* way, and its price is within 5000 or within 0.5% of the county close
\* price; the probed records that break one of these are never selected.
ClosedSaleFilters ==
  (pc = "returned" /\ result[1] # << >> /\ "dateLag" \in DOMAIN result[1][1]) =>
    LET c == result[1][1].candidate
        row == ProbeRow(probe)
        lag == dayDiff(row.saleDateIso, c.sellingDate)
        diff == Abs(c.sellingPrice - row.closePriceN)
    IN /\ c \in Range(ProbeRecords(probe))
       /\ toDate(c.sellingDate) # << >>
       /\ c.sellingPrice > 0
       /\ lag # << >>
       /\ Abs(lag[1]) <= 45
       /\ (diff <= 5000 \/ diff <= row.closePriceN \div 200)
       /\ c.listingNumber \notin {SoldLate.ListingNumber, SoldEarly.ListingNumber,
                                  SoldDear.ListingNumber, SoldEstateDear.ListingNumber,
                                  SoldNoSuchMonth.ListingNumber}

\* the record at both limits is selected though a record sold on the county
\* sale date at a price 5001 off stands before it
ClosedSaleFiltersWitness ==
  /\ pc = "returned"
  /\ probe.base = CountyByMajorMinor
  /\ probe.lines = <<SoldDear, SoldAtBothLimits>>
  /\ result[1] # << >>
  /\ "dateLag" \in DOMAIN result[1][1]
  /\ result[1][1].candidate.listingNumber = SoldAtBothLimits.ListingNumber
  /\ result[1][1].dateLag = 45
  /\ result[1][1].priceDiff = 5000

\* C16: a record selected as a listing stub is open, has a positive listing
\* price, has its anchor date (pending, else contractual, else listing date)
\* 0 to 120 days before the county sale date, and a listing price within 50%
\* of the county close price; a record whose anchor date is after the county
\* sale date is never selected.
ListingStubFilters ==
  (pc = "returned" /\ result[1] # << >> /\ "lagDays" \in DOMAIN result[1][1]) =>
    LET c == result[1][1].candidate
        row == ProbeRow(probe)
        anchor == IF c.pendingDate # << >> THEN c.pendingDate
                  ELSE IF c.contractualDate # << >> THEN c.contractualDate
                  ELSE c.listingDate
        lag == dayDiff(anchor, row.saleDateIso)
        diff == Abs(c.listingPrice - row.closePriceN)
    IN /\ c \in Range(ProbeRecords(probe))
       /\ ~c.isClosed
       /\ c.status \notin {"Sold", "Closed"}
       /\ c.listingPrice > 0
       /\ lag # << >>
       /\ lag[1] >= 0
       /\ lag[1] <= 120
       /\ diff * 2 <= row.closePriceN
       /\ c.listingNumber \notin {OpenStale.ListingNumber, OpenAfterSale.ListingNumber,
                                  OpenCheap.ListingNumber, OpenDear.ListingNumber,
                                  OpenNoPrice.ListingNumber,
                                  OpenPendingAfterSale.ListingNumber}
                                 \cup {l.ListingNumber : l \in SelectSoldLines}

\* the listing at both limits is selected though a listing anchored the day
\* after the sale stands before it
ListingStubFiltersWitness ==
  /\ pc = "returned"
  /\ probe.base = CountyByMajorMinor
  /\ probe.lines = <<OpenPendingAfterSale, OpenAtBothLimits>>
  /\ result[1] # << >>
  /\ "lagDays" \in DOMAIN result[1][1]
  /\ result[1][1].candidate.listingNumber = OpenAtBothLimits.ListingNumber
  /\ result[1][1].lagDays = 120
  /\ result[1][1].priceDiff = 250000

\* the contractual date stands in for a missing pending date, before the listing date
ListingStubByContractualDate ==
  /\ pc = "returned"
  /\ probe.lines = <<OpenContractual>>
  /\ result[1] # << >>
  /\ "lagDays" \in DOMAIN result[1][1]
  /\ result[1][1].lagDays = 10

\* the score records of a list of candidates, << >> for those passed over,
\* of the matcher that gave the result
ScoresOfResult(p, r) ==
  IF "dateLag" \in DOMAIN r
  THEN [i \in 1..Len(ProbeClosedCandidates(p)) |->
          MatchCandidate(ProbeRow(p), ProbeClosedCandidates(p)[i], {})]
  ELSE [i \in 1..Len(ProbeStubCandidates(p)) |->
          StubCandidate(ProbeRow(p), ProbeStubCandidates(p)[i], {})]

\* records in brokerage file order, then row order
InInputOrder(scores) ==
  \A i, j \in {k \in 1..Len(scores) : scores[k] # << >>} :
    i < j =>
      LET a == scores[i][1].candidate.uid
          b == scores[j][1].candidate.uid
      IN \/ NameRank(a[1][1]) < NameRank(b[1][1])
         \/ (a[1][1] = b[1][1] /\ a[6] < b[6])

\* C17: among the surviving candidates of the smallest score the matcher
\* (closed-sale or stub) selects the one that stands first in input order,
\* brokerage file order and then row order.
FirstOfTiedWins ==
  (pc = "returned" /\ result[1] # << >>) =>
    LET scores == ScoresOfResult(probe, result[1][1])
        passing == {k \in 1..Len(scores) : scores[k] # << >>}
        least == {k \in passing : \A j \in passing : scores[k][1].score <= scores[j][1].score}
    IN /\ InInputOrder(scores)
       /\ least # {}
       /\ result[1][1] = scores[CHOOSE k \in least : \A j \in least : k <= j][1]

\* two sold records of one score in two files: the one of the first file wins
FirstOfTiedWinsWitness ==
  /\ pc = "returned"
  /\ probe.base = CountyByMajorMinor
  /\ probe.lines = <<SoldAbove>>
  /\ probe.more = <<SoldBelow>>
  /\ result[1] # << >>
  /\ "dateLag" \in DOMAIN result[1][1]
  /\ result[1][1].score = 104000
  /\ result[1][1].candidate.listingNumber = SoldAbove.ListingNumber

\* a pending listing 40000 off and an active one at the close price have one
\* score: the first in row order wins
FirstOfTiedStubsWins ==
  /\ pc = "returned"
  /\ probe.base = CountyByMajorMinor
  /\ probe.lines = <<OpenActive, OpenPending>>
  /\ result[1] # << >>
  /\ "lagDays" \in DOMAIN result[1][1]
  /\ result[1][1].score = 40000
  /\ result[1][1].candidate.listingNumber = OpenActive.ListingNumber

(***************************************************************************)
(* The synthesized rows                                                    *)
(***************************************************************************)
\* the fields of a record that a synthesized row carries
SameListing(a, b) ==
  /\ a.listingNumber = b.listingNumber
  /\ a.apn = b.apn
  /\ a.status = b.status
  /\ a.sellingDate = b.sellingDate
  /\ a.sellingPrice = b.sellingPrice

\* the MLS_SOLD_NOT_IN_COUNTY rows that carry the fields of record r
SoldRowsOf(r) ==
  {k \in 1..Len(mlsOnlyRows) :
     /\ mlsOnlyRows[k].mlsListingNumber = r.listingNumber
     /\ mlsOnlyRows[k].parcel = r.apn
     /\ mlsOnlyRows[k].mlsStatus = r.status
     /\ mlsOnlyRows[k].saleDate = r.sellingDate
     /\ mlsOnlyRows[k].closePrice = (IF r.sellingPrice > 0 THEN <<r.sellingPrice>> ELSE << >>)}

\* the records among those at the places S that are due a row of their own:
\* never marked used, and not a sale the county file has
DueSoldRow(S) ==
  {i \in S :
     /\ mlsRows[i].uid \notin used
     /\ <<mlsRows[i].apn, mlsRows[i].sellingDate, mlsRows[i].sellingPrice>>
          \notin knownCountySaleSignatures(rows)}

\* the closed-only rows are one per record due a row among the places S
OneSoldRowEach(S) ==
  /\ \A k \in 1..Len(mlsOnlyRows) :
       /\ mlsOnlyRows[k].dataMode = "MLS_ENRICHED"
       /\ mlsOnlyRows[k].mlsJoinMethod = "MLS_SOLD_NOT_IN_COUNTY"
  /\ Len(mlsOnlyRows) = Cardinality(DueSoldRow(S))
  /\ \A i \in S :
       Cardinality(SoldRowsOf(mlsRows[i]))
         = Cardinality({j \in DueSoldRow(S) : SameListing(mlsRows[j], mlsRows[i])})

\* C18 as stated: every record with the closed flag set gets one
\* MLS_SOLD_NOT_IN_COUNTY row unless it was marked used or its sale is a
\* county sale signature.
ClosedFlagSynthesis ==
  pc \in {"synthOpen", "write", "report", "done"} =>
    OneSoldRowEach({i \in 1..Len(mlsRows) : mlsRows[i].isClosed})

\* C18: every record with the closed flag set, a sale date and a positive
\* sale price gets exactly one row tagged MLS_ENRICHED and
\* MLS_SOLD_NOT_IN_COUNTY unless it was marked used or its (parcel key, sale
\* date, sale price) is a county sale signature, and then it gets none; a
\* record with the closed flag set but no sale date or no positive sale price
\* gets none either.
ClosedSaleSynthesis ==
  pc \in {"synthOpen", "write", "report", "done"} =>
    /\ OneSoldRowEach({i \in 1..Len(mlsRows) :
                         /\ mlsRows[i].isClosed
                         /\ mlsRows[i].sellingDate # << >>
                         /\ mlsRows[i].sellingPrice > 0})
    /\ \A i \in 1..Len(mlsRows) :
         (mlsRows[i].sellingDate = << >> \/ mlsRows[i].sellingPrice <= 0)
           => SoldRowsOf(mlsRows[i]) = {}

\* one sold record was consumed by a match and another got a row of its own
ClosedSaleSynthesisWitness ==
  /\ pc = "done"
  /\ matched = 1
  /\ Len(mlsOnlyRows) = 1
  /\ \E i, j \in 1..Len(mlsRows) :
       /\ mlsRows[i].isClosed /\ mlsRows[i].uid \in used
       /\ mlsRows[j].isClosed /\ mlsRows[j].uid \notin used
       /\ SoldRowsOf(mlsRows[i]) = {}
       /\ Cardinality(SoldRowsOf(mlsRows[j])) = 1

\* a record of status Sold without sale date and price: flagged closed, never
\* used, and without a row
SoldWithoutSaleHasNoRow ==
  /\ pc = "done"
  /\ \E i \in 1..Len(mlsRows) :
       /\ mlsRows[i].isClosed
       /\ mlsRows[i].sellingDate = << >>
       /\ mlsRows[i].uid \notin used
       /\ SoldRowsOf(mlsRows[i]) = {}
       /\ \A k \in 1..Len(outputFile.rows) :
            outputFile.rows[k].mlsListingNumber # mlsRows[i].listingNumber

\* the places of the open records, closed flag false, in mlsRows
OpenPlaces == {i \in 1..Len(mlsRows) : ~mlsRows[i].isClosed}

\* the MLS_STATUS_OPEN rows among rs made from the open record at place i
OpenRowsOf(rs, i) ==
  {k \in 1..Len(rs) :
     /\ rs[k].origin = "mlsOpen"
     /\ rs[k].id[4] = Cardinality({j \in OpenPlaces : j <= i})
     /\ rs[k].parcel = mlsRows[i].apn
     /\ rs[k].mlsListingNumber = mlsRows[i].listingNumber
     /\ rs[k].mlsStatus = mlsRows[i].status}

\* the county rows among rs that took the record at place i as a listing stub
StubRowsOf(rs, i) ==
  {k \in 1..Len(trace) :
     /\ trace[k].stubUid = <<mlsRows[i].uid>>
     /\ rs[k].origin = "county"
     /\ rs[k].mlsJoinMethod = "APN_LISTING_STUB"
     /\ rs[k].mlsListingNumber = mlsRows[i].listingNumber}

NotUsed(candidates) == SelectSeq(candidates, LAMBDA c : c.uid \notin used)

\* the uid of a result of a matcher, as TraceEntry records it
UidOf(best) == IF best # << >> THEN <<best[1].candidate.uid>> ELSE << >>

\* the step of the matcher for the county row at the cursor took its uids as
\* though the used records were not among the candidates
UsedNotConsidered ==
  LET row == rows[cursor]
      e == trace'[Len(trace')]
  IN /\ e.closedUid
          = UidOf(chooseBestMatch(row, NotUsed(mlsClosedByApn(mlsRows, row.parcel)), {}))
     /\ e.triedStub =>
          e.stubUid
            = UidOf(chooseBestListingStub(row, NotUsed(mlsStubByApn(mlsRows, row.parcel)), {}))

\* C20: the exclusion set starts empty and never loses a uid; a county row
\* with a closed or stub match adds exactly one uid, one that was not in the
\* set, every other step leaves the set alone, and the records in the set are
\* not candidates any more.
UsedMonotonic ==
  /\ used = {}
  /\ [][/\ used \subseteq used'
        /\ IF Len(trace') = Len(trace) + 1
           THEN /\ used' = used \cup ChosenUids(trace'[Len(trace')])
                /\ ChosenUids(trace'[Len(trace')]) \cap used = {}
                /\ Cardinality(used')
                     = Cardinality(used)
                       + (IF matched' # matched \/ listingStubbed' # listingStubbed
                          THEN 1 ELSE 0)
                /\ UsedNotConsidered
           ELSE used' = used]_vars

\* the second county row would have taken the record the first one took, had
\* it not been in the exclusion set
UsedMonotonicWitness ==
  /\ pc = "done"
  /\ Len(trace) = 2
  /\ trace[1].closedUid # << >>
  /\ trace[1].closedUid[1] \in used
  /\ trace[2].closedUid # trace[1].closedUid
  /\ UidOf(chooseBestMatch(rows[2], mlsClosedByApn(mlsRows, rows[2].parcel), {}))
       = trace[1].closedUid

(***************************************************************************)
(* The descriptive columns of the two sources                              *)
(***************************************************************************)
DigitChar(n) ==
  CASE n = 0 -> "0" [] n = 1 -> "1" [] n = 2 -> "2" [] n = 3 -> "3" [] n = 4 -> "4"
    [] n = 5 -> "5" [] n = 6 -> "6" [] n = 7 -> "7" [] n = 8 -> "8" [] n = 9 -> "9"

RECURSIVE DigitsOf(_)
DigitsOf(n) == IF n < 10 THEN <<DigitChar(n)>> ELSE DigitsOf(n \div 10) \o <<DigitChar(n % 10)>>

\* String(n) of an integer
StringOfInt(n) == IF n < 0 THEN <<"-">> \o DigitsOf(0 - n) ELSE DigitsOf(n)

\* String(x) of a positive number x held in tenths
StringOfTenths(t) ==
  IF t % 10 = 0 THEN DigitsOf(t \div 10)
  ELSE DigitsOf(t \div 10) \o <<".", DigitChar(t % 10)>>

\* zip5 (lines 104-106): the first five digits in a row, or ""
zip5(v) ==
  IF \E i \in 1..(Len(v) - 4) : AllDigits(SubSeq(v, i, i + 4))
  THEN SubSeq(v, CHOOSE i \in 1..(Len(v) - 4) :
                   /\ AllDigits(SubSeq(v, i, i + 4))
                   /\ \A j \in 1..(i - 1) : ~AllDigits(SubSeq(v, j, j + 4)),
              4 + (CHOOSE i \in 1..(Len(v) - 4) :
                     /\ AllDigits(SubSeq(v, i, i + 4))
                     /\ \A j \in 1..(i - 1) : ~AllDigits(SubSeq(v, j, j + 4))))
  ELSE << >>

\* regionFromFilename (lines 196-205) of the file names of the model
regionFromFilename(file) ==
  CASE file = "NE Seattle Sale Stats.csv" -> "NE Seattle"
    [] file = "NW Seattle Sale Stats.csv" -> "NW Seattle"
    [] OTHER -> "Seattle"

\* inferTypeFromMlsStyle (lines 127-135) of the style codes of the model
inferTypeFromMlsStyle(styleCode) ==
  CASE styleCode = "32 - Townhouse" -> "Townhouse"
    [] styleCode = "30 - Condo (1 Level)" -> "Condo"
    [] styleCode = "52 - Multi-Family" -> "Multi-Family"
    [] OTHER -> "Single Family"

\* mlsAddressFromParts (lines 241-255): the street and the city part that are
\* not empty, joined by ", "; an address is the sequence of its parts
mlsAddressFromParts(line) == SelectSeq(<<line.Street, line.CityStateZip>>, LAMBDA p : p # "")

\* the descriptive fields of a realtor record (lines 344-353) beside those of
\* RealtorRecord; baths is in tenths
DescribedRecord(rec, file, line) ==
  rec @@ [region |-> regionFromFilename(file),
          styleCode |-> line.StyleCode,
          beds |-> MathRound(num(line.Bedrooms)),
          baths |-> num(line.Bathrooms),
          sqft |-> MathRound(num(line.SquareFootage)),
          yearBuilt |-> MathRound(num(line.YearBuilt)),
          zip |-> zip5(line.ZipCode),
          mlsAddress |-> mlsAddressFromParts(line)]

\* readRealtorRows over one file whose lines all carry a parcel key
DescribedRecords(file, lines) ==
  [i \in 1..Len(lines) |-> DescribedRecord(RealtorRow(file, lines[i], i - 1)[1], file, lines[i])]

\* the descriptive columns of the county file
CountyAttributes ==
  {"address", "addressSource", "neighborhood", "type", "zip", "beds", "baths", "sqft",
   "yearBuilt", "listDate", "pendingDate", "listPriceAtPending", "assessedValue"}

\* a row of readBaseRows (lines 263-268) with its descriptive cells
DescribedBaseRow(line) ==
  LoadedBaseRow(BaseCells(BaseHeadersFull, line)) @@ [h \in CountyAttributes |-> line[h]]

\* c.x > 0 ? String(c.x) : fallback
PositiveOr(n, fallback) == IF n > 0 THEN StringOfInt(n) ELSE fallback

\* a || b for two texts
FirstText(a, b) == IF a # << >> THEN a ELSE b

\* /address unavailable/i.test(address) for the addresses of the model
AddressUnavailable(address) ==
  address \in {<<"Address unavailable">>, <<"ADDRESS UNAVAILABLE">>}

\* a bid-up that is never below zero
BidUpClamped(close, list) == IF close > 0 /\ list > 0 /\ close > list THEN close - list ELSE 0

\* bidUp (lines 524 and 566)
BidUp(close, list) == IF close > 0 /\ list > 0 THEN close - list ELSE 0

\* the close price of line 521 for the bid-up of a closed match
MatchClosePrice(row, c) ==
  IF c.sellingPrice > 0 THEN c.sellingPrice ELSE MathRound(num(row.closePrice))

\* the list price of line 522
MatchListPrice(row, c) ==
  IF c.listingPrice > 0 THEN c.listingPrice ELSE MathRound(num(row.listPriceAtPending))

\* the cells a closed match writes over a county row (lines 483-534)
MatchCells(row, c) ==
  [address |-> IF c.mlsAddress # << >> THEN c.mlsAddress ELSE row.address,
   addressSource |-> IF c.mlsAddress # << >> THEN "MLS_ADDRESS" ELSE row.addressSource,
   listDate |-> FirstText(c.listingDate, row.listDate),
   pendingDate |-> FirstText(c.pendingDate, row.pendingDate),
   saleDate |-> FirstText(c.sellingDate, row.saleDate),
   listPriceAtPending |-> PositiveOr(c.listingPrice, row.listPriceAtPending),
   closePrice |-> PositiveOr(c.sellingPrice, row.closePrice),
   type |-> row.type,
   zip |-> row.zip,
   beds |-> PositiveOr(c.beds, row.beds),
   baths |-> IF c.baths > 0 THEN StringOfTenths(c.baths) ELSE row.baths,
   sqft |-> PositiveOr(c.sqft, row.sqft),
   yearBuilt |-> PositiveOr(c.yearBuilt, row.yearBuilt),
   mlsListPriceAtPending |-> PositiveOr(c.listingPrice, << >>),
   mlsClosePrice |-> PositiveOr(c.sellingPrice, << >>),
   mlsListingPrice |-> PositiveOr(c.listingPrice, << >>),
   mlsSellingPrice |-> PositiveOr(c.sellingPrice, << >>),
   bidUpAmount |-> StringOfInt(BidUp(MatchClosePrice(row, c), MatchListPrice(row, c)))]

\* the list price of line 562 for the bid-up of a stub
StubListPrice(row, c, listPriceAtPending) ==
  IF c.listingPrice > 0 THEN c.listingPrice
  ELSE MathRound(num(FirstText(listPriceAtPending, row.assessedValue)))

\* the cells a listing stub writes over a county row (lines 543-594)
StubCells(row, c) ==
  [address |-> IF c.mlsAddress # << >>
                  /\ (row.address = << >> \/ row.addressSource = "PARCEL_FALLBACK"
                      \/ AddressUnavailable(row.address))
               THEN c.mlsAddress ELSE row.address,
   addressSource |-> IF c.mlsAddress # << >>
                        /\ (row.address = << >> \/ row.addressSource = "PARCEL_FALLBACK"
                            \/ AddressUnavailable(row.address))
                     THEN "MLS_ADDRESS" ELSE row.addressSource,
   listDate |-> FirstText(c.listingDate, row.listDate),
   pendingDate |-> FirstText(c.pendingDate, row.pendingDate),
   saleDate |-> row.saleDate,
   listPriceAtPending |-> PositiveOr(c.listingPrice, row.listPriceAtPending),
   closePrice |-> row.closePrice,
   type |-> IF row.type \in {"", "Unknown"} THEN inferTypeFromMlsStyle(c.styleCode)
            ELSE row.type,
   zip |-> FirstText(row.zip, c.zip),
   beds |-> IF c.beds > 0 /\ num(row.beds) = 0 THEN StringOfInt(c.beds) ELSE row.beds,
   baths |-> IF c.baths > 0 /\ num(row.baths) = 0 THEN StringOfTenths(c.baths) ELSE row.baths,
   sqft |-> IF c.sqft > 0 /\ num(row.sqft) = 0 THEN StringOfInt(c.sqft) ELSE row.sqft,
   yearBuilt |-> IF c.yearBuilt > 0 /\ num(row.yearBuilt) = 0 THEN StringOfInt(c.yearBuilt)
                 ELSE row.yearBuilt,
   mlsListPriceAtPending |->
     PositiveOr(StubListPrice(row, c, PositiveOr(c.listingPrice, row.listPriceAtPending)),
                << >>),
   mlsClosePrice |-> PositiveOr(MathRound(num(row.closePrice)), << >>),
   mlsListingPrice |-> PositiveOr(c.listingPrice, << >>),
   mlsSellingPrice |-> PositiveOr(MathRound(num(row.closePrice)), << >>),
   bidUpAmount |->
     StringOfInt(BidUp(MathRound(num(row.closePrice)),
                       StubListPrice(row, c,
                                     PositiveOr(c.listingPrice, row.listPriceAtPending))))]

\* the cells of a county row that took no record (lines 477 and 596-618)
UnmatchedCells(row) ==
  [h \in CountyAttributes \cup {"saleDate", "closePrice"} |-> row[h]]
  @@ [mlsListPriceAtPending |-> << >>, mlsClosePrice |-> << >>, mlsListingPrice |-> << >>,
      mlsSellingPrice |-> << >>, bidUpAmount |-> << >>]

\* the callback of rows.map (lines 474-622) with the cells above beside those
\* of MergedRow; the cells of the county row that no branch writes stay
CountyOut(row, match, stub) ==
  MergedRow(row, match, stub)
  @@ (IF match # << >> THEN MatchCells(row, match[1].candidate)
      ELSE IF stub # << >> THEN StubCells(row, stub[1].candidate)
      ELSE UnmatchedCells(row))
  @@ [h \in CountyAttributes |-> row[h]]

\* lines 536-538: the stub matcher runs when the closed matcher found nothing
EnrichWith(row, records, match) ==
  CountyOut(row, match,
            IF StubAttempted(match)
            THEN chooseBestListingStub(row, mlsStubByApn(records, row.parcel), {})
            ELSE << >>)

\* lines 475-476 for one county row and an empty exclusion set
EnrichRow(row, records) ==
  EnrichWith(row, records, chooseBestMatch(row, mlsClosedByApn(records, row.parcel), {}))

(***************************************************************************)
(* The callback of rows.map applied to one county row                      *)
(***************************************************************************)
\* a county row with every descriptive cell filled
CountyDescribed ==
  [address |-> <<"12 Elm St">>, addressSource |-> "KC_SITUS", neighborhood |-> "Ballard",
   type |-> "Single Family", zip |-> <<"9", "8", "1", "0", "7">>,
   beds |-> <<"3">>, baths |-> <<"2">>, sqft |-> <<"1", "5", "0", "0">>,
   yearBuilt |-> <<"1", "9", "5", "0">>,
   listDate |-> << >>, pendingDate |-> << >>,
   listPriceAtPending |-> <<"4", "9", "0", "0", "0", "0">>,
   assessedValue |-> <<"4", "5", "0", "0", "0", "0">>]

\* a county row without an address and without descriptive cells
CountyUndescribed ==
  [address |-> <<"Address unavailable">>, addressSource |-> "PARCEL_FALLBACK",
   neighborhood |-> "", type |-> "Unknown", zip |-> << >>,
   beds |-> << >>, baths |-> << >>, sqft |-> << >>, yearBuilt |-> << >>,
   listDate |-> << >>, pendingDate |-> << >>, listPriceAtPending |-> << >>,
   assessedValue |-> << >>]

\* a brokerage line with every descriptive cell filled
RealtorDescribed ==
  [Street |-> "9 Oak Ave NW", CityStateZip |-> "Seattle WA 98117",
   ZipCode |-> <<"9", "8", "1", "1", "7", "-", "1", "2", "3", "4">>, StyleCode |-> "32 - Townhouse",
   Bedrooms |-> <<"4">>, Bathrooms |-> <<"2", ".", "5">>,
   SquareFootage |-> <<"1", ",", "8", "0", "0">>, YearBuilt |-> <<"1", "9", "9", "0">>]

\* a brokerage line without descriptive cells
RealtorUndescribed ==
  [Street |-> "", CityStateZip |-> "", ZipCode |-> << >>, StyleCode |-> "",
   Bedrooms |-> << >>, Bathrooms |-> << >>, SquareFootage |-> << >>, YearBuilt |-> << >>]

\* parcel 123456-0010 sold 2024-01-10 for 500000, or 2024-01-12 for 501000
EnrichCountyLines ==
  {b @@ d : b \in {CountyByMajorMinor, CountyByParcelNbr},
            d \in {CountyDescribed, CountyUndescribed,
                   [CountyDescribed EXCEPT !.listPriceAtPending = << >>]}}

\* sold 2024-01-12 for 501000, listed at 480000, at 510000 or without a price
EnrichSoldLines ==
  {[RealtorSold EXCEPT !.ListingPrice = p] @@ d :
     p \in {RealtorSold.ListingPrice, <<"5", "1", "0", "0", "0", "0">>, << >>},
     d \in {RealtorDescribed, RealtorUndescribed}}

\* active, listed 2023-12-01 at 520000 or without a price
EnrichOpenLines ==
  {[RealtorActive EXCEPT !.ListingPrice = p] @@ d :
     p \in {RealtorActive.ListingPrice, << >>},
     d \in {RealtorDescribed, RealtorUndescribed}}

\* one county line and at most one brokerage line of its parcel
EnrichProbes ==
  {[county |-> b, lines |-> l] :
     b \in EnrichCountyLines, l \in SeqsUpTo(EnrichSoldLines \cup EnrichOpenLines, 1)}

InitEnrich ==
  /\ pc = "call"
  /\ probe \in EnrichProbes
  /\ result = << >>
  /\ PipelineIdle

ApplyEnrichRow ==
  /\ pc = "call"
  /\ result' = <<EnrichRow(DescribedBaseRow(probe.county),
                           DescribedRecords("NE Seattle Sale Stats.csv", probe.lines))>>
  /\ pc' = "returned"
  /\ UNCHANGED <<fsys, outputFile, reportFile, rows, mlsRows, used, cursor, merged, trace,
                 matched, listingStubbed, mlsOnlyRows, mlsOpenOnlyRows, probe>>

NextEnrich == ApplyEnrichRow

SpecEnrich == InitEnrich /\ [][NextEnrich]_vars

\* C21: the output row of a county row, matched or not, has the address, sale
\* date, close price, beds, baths, floor area and year built of the county
\* line as loaded.
BaseAttributesKept ==
  pc = "returned" =>
    \A h \in {"address", "saleDate", "closePrice", "beds", "baths", "sqft", "yearBuilt"} :
      result[1][h] = probe.county[h]

\* a closed match put the sale date and the price of the brokerage line in the
\* place of the county's
BaseAttributesOverwritten ==
  /\ pc = "returned"
  /\ probe.county.saleDate = CountyByMajorMinor.saleDate
  /\ probe.county.closePrice = CountyByMajorMinor.closePrice
  /\ result[1].mlsJoinMethod = "APN_PRICE_DATE_WINDOW"
  /\ result[1].saleDate = <<"2", "0", "2", "4", "-", "0", "1", "-", "1", "2">>
  /\ result[1].closePrice = <<"5", "0", "1", "0", "0", "0">>

\* C22: on a closed match the row carries APN_PRICE_DATE_WINDOW and the date
\* lag, and bidUpAmount is effective close less effective list when both are
\* positive, also when that is negative, where the effective close is the
\* selling price when positive, else the county close price, and the
\* effective list the listing price when positive, else the county list
\* price; selling 501000 and listing 480000 against a county close of 500000
\* two days apart give dateLag 2, priceDiff 1000 and bidUpAmount 21000.
BidUpOnClosedMatch ==
  (pc = "returned" /\ result[1].mlsJoinMethod = "APN_PRICE_DATE_WINDOW") =>
    LET c == DescribedRecords("NE Seattle Sale Stats.csv", probe.lines)[1]
        county == DescribedBaseRow(probe.county)
        close == IF c.sellingPrice > 0 THEN c.sellingPrice ELSE county.closePriceN
        list == IF c.listingPrice > 0 THEN c.listingPrice
                ELSE MathRound(num(probe.county.listPriceAtPending))
    IN /\ result[1].dataMode = "MLS_ENRICHED"
       /\ result[1].mlsDateLagDays = <<Abs(dayDiff(county.saleDateIso, c.sellingDate)[1])>>
       /\ NumberOf(result[1].bidUpAmount)
            = 10 * (IF close > 0 /\ list > 0 THEN close - list ELSE 0)
       /\ (probe.county.closePrice = CountyByMajorMinor.closePrice
           /\ probe.lines[1].ListingPrice = RealtorSold.ListingPrice)
            => /\ result[1].mlsDateLagDays = <<2>>
               /\ result[1].bidUpAmount = <<"2", "1", "0", "0", "0">>
               /\ Abs(c.sellingPrice - county.closePriceN) = 1000

\* sold for 501000 under a list price of 510000: the bid-up is -9000
BidUpOnClosedMatchWitness ==
  /\ pc = "returned"
  /\ result[1].mlsJoinMethod = "APN_PRICE_DATE_WINDOW"
  /\ probe.lines[1].ListingPrice = <<"5", "1", "0", "0", "0", "0">>
  /\ result[1].bidUpAmount = <<"-", "9", "0", "0", "0">>

\* without a listing price the county list price of 490000 stands in
BidUpFromCountyListPrice ==
  /\ pc = "returned"
  /\ result[1].mlsJoinMethod = "APN_PRICE_DATE_WINDOW"
  /\ probe.lines[1].ListingPrice = << >>
  /\ probe.county.listPriceAtPending # << >>
  /\ result[1].bidUpAmount = <<"1", "1", "0", "0", "0">>

(***************************************************************************)
(* The parcel snapshot and the descriptive cells of synthesized rows       *)
(***************************************************************************)
\* the fields of a snapshot that the model carries (lines 143-160)
SnapshotFields ==
  {"address", "addressSource", "neighborhood", "type", "zip", "beds", "baths", "sqft",
   "yearBuilt", "assessedValue"}

\* the empty value of a field: "" for the labels, the empty text for the rest
EmptyCell(f) == IF f \in {"addressSource", "neighborhood", "type"} THEN "" ELSE << >>

\* lines 143-160: the snapshot of a parcel no row has been seen for
EmptySnapshot == [f \in SnapshotFields |-> EmptyCell(f)]

\* out.get(apn) || {...} (line 142), parcelSnapshotByApn.get(c.apn) || {} (line 632)
SnapshotGet(out, apn) == IF apn \in DOMAIN out THEN out[apn] ELSE EmptySnapshot

\* a snapshot in which a later row's value replaces the one already set
SnapshotNextLast(prev, row) ==
  [f \in SnapshotFields |-> IF row[f] # EmptyCell(f) THEN row[f] ELSE prev[f]]

\* lines 162-180: if (!next.f && row.f) next.f = row.f
SnapshotNext(prev, row) ==
  [f \in SnapshotFields |->
     IF prev[f] = EmptyCell(f) /\ row[f] # EmptyCell(f) THEN row[f] ELSE prev[f]]

\* the body of rows.forEach (lines 139-182): rows without __parcel are skipped
RECURSIVE SnapshotFrom(_, _, _)
SnapshotFrom(countyRows, i, out) ==
  IF i > Len(countyRows) THEN out
  ELSE SnapshotFrom(countyRows, i + 1,
         IF countyRows[i].parcel = << >> THEN out
         ELSE (countyRows[i].parcel
                 :> SnapshotNext(SnapshotGet(out, countyRows[i].parcel), countyRows[i]))
              @@ out)

\* buildParcelSnapshotByApn (lines 137-184)
buildParcelSnapshotByApn(countyRows) == SnapshotFrom(countyRows, 1, << >>)

\* the descriptive cells of a synthesized row (lines 648-675 and 720-747)
SynthCells(c, snapshot) ==
  [address |-> FirstText(c.mlsAddress, snapshot.address),
   neighborhood |-> IF snapshot.neighborhood # "" THEN snapshot.neighborhood
                    ELSE IF c.region # "" THEN c.region ELSE "Seattle (Other)",
   type |-> IF snapshot.type # "" THEN snapshot.type ELSE inferTypeFromMlsStyle(c.styleCode),
   addressSource |-> IF c.mlsAddress # << >> THEN "MLS_ADDRESS"
                     ELSE IF snapshot.addressSource # "" THEN snapshot.addressSource
                     ELSE "MLS_ADDRESS",
   listDate |-> c.listingDate,
   pendingDate |-> c.pendingDate,
   listPriceAtPending |-> PositiveOr(c.listingPrice, << >>),
   assessedValue |-> snapshot.assessedValue,
   beds |-> PositiveOr(c.beds, snapshot.beds),
   baths |-> IF c.baths > 0 THEN StringOfTenths(c.baths) ELSE snapshot.baths,
   sqft |-> PositiveOr(c.sqft, snapshot.sqft),
   yearBuilt |-> PositiveOr(c.yearBuilt, snapshot.yearBuilt),
   zip |-> FirstText(c.zip, snapshot.zip),
   mlsListPriceAtPending |-> PositiveOr(c.listingPrice, << >>),
   mlsListingPrice |-> PositiveOr(c.listingPrice, << >>),
   mlsRegion |-> c.region,
   mlsStyleCode |-> c.styleCode]

\* the row of lines 632-705 for a closed record no county row took
DescribedClosedRow(c, index, snapshot) ==
  ClosedOnlyRow(c, index) @@ SynthCells(c, snapshot)
  @@ [mlsClosePrice |-> PositiveOr(c.sellingPrice, << >>),
      mlsSellingPrice |-> PositiveOr(c.sellingPrice, << >>),
      bidUpAmount |-> StringOfInt(BidUp(MaxOf({c.sellingPrice, 0}), MaxOf({c.listingPrice, 0})))]

\* the row of lines 711-777 for an open record no county row took
DescribedOpenRow(c, index, snapshot) ==
  OpenOnlyRow(c, index) @@ SynthCells(c, snapshot)
  @@ [mlsClosePrice |-> << >>, mlsSellingPrice |-> << >>, bidUpAmount |-> << >>]

\* the row a record that is not in use gets, by the list it is in
DescribedSynthRow(c, index, snapshot) ==
  IF c.isClosed THEN DescribedClosedRow(c, index, snapshot)
  ELSE DescribedOpenRow(c, index, snapshot)

(***************************************************************************)
(* buildParcelSnapshotByApn and the synthesis of one row from its result   *)
(***************************************************************************)
MaxSnapshotRows == 2

\* parcel 123456-0020
CountyOtherParcel ==
  [CountyByMajorMinor EXCEPT !.id = "c8", !.minor = <<"0", "0", "2", "0">>]

\* a county row with a neighbourhood, beds and an assessed value only
CountySparse ==
  [address |-> << >>, addressSource |-> "",
   neighborhood |-> "Fremont", type |-> "", zip |-> << >>,
   beds |-> <<"2">>, baths |-> << >>, sqft |-> << >>, yearBuilt |-> << >>,
   listDate |-> << >>, pendingDate |-> << >>, listPriceAtPending |-> << >>,
   assessedValue |-> <<"4", "0", "0", "0", "0", "0">>]

\* a county row with no descriptive cell at all
CountyBlank == [h \in CountyAttributes |-> EmptyCell(h)]

\* county lines of parcel 123456-0010, of parcel 123456-0020 and of no parcel
FillCountyLines ==
  {b @@ d : b \in {CountyNoPrice, CountyOtherParcel, CountyShortParcel},
            d \in {CountyDescribed, CountySparse, CountyBlank}}

\* brokerage lines of parcel 123456-0010: sold or active, described or not
FillRealtorLines ==
  {b @@ d : b \in {RealtorSold, RealtorActive, [RealtorActive EXCEPT !.ListingPrice = << >>]},
            d \in {RealtorDescribed, RealtorUndescribed}}

FillProbes ==
  {[county |-> cs, line |-> l] :
     cs \in SeqsUpTo(FillCountyLines, MaxSnapshotRows), l \in FillRealtorLines}

\* the county rows of a probe as readBaseRows loads them
FillRows(p) == [i \in 1..Len(p.county) |-> DescribedBaseRow(p.county[i])]

\* the record of the brokerage line of a probe
FillRecord(p) == DescribedRecords("NE Seattle Sale Stats.csv", <<p.line>>)[1]

InitFill ==
  /\ pc = "call"
  /\ probe \in FillProbes
  /\ result = << >>
  /\ PipelineIdle

\* line 453
ApplyBuildParcelSnapshot ==
  /\ pc = "call"
  /\ result' = <<buildParcelSnapshotByApn(FillRows(probe))>>
  /\ pc' = "snapshot"
  /\ UNCHANGED <<fsys, outputFile, reportFile, rows, mlsRows, used, cursor, merged, trace,
                 matched, listingStubbed, mlsOnlyRows, mlsOpenOnlyRows, probe>>

\* lines 632-705 or 711-777 for the record, with the snapshot of its parcel
ApplySynthesize ==
  /\ pc = "snapshot"
  /\ result' = <<DescribedSynthRow(FillRecord(probe), 1,
                                   SnapshotGet(result[1], FillRecord(probe).apn))>>
  /\ pc' = "returned"
  /\ UNCHANGED <<fsys, outputFile, reportFile, rows, mlsRows, used, cursor, merged, trace,
                 matched, listingStubbed, mlsOnlyRows, mlsOpenOnlyRows, probe>>

NextFill == ApplyBuildParcelSnapshot \/ ApplySynthesize

SpecFill == InitFill /\ [][NextFill]_vars

\* the value of a descriptive field that the record has, or the empty value
RecordValue(c, f) ==
  CASE f = "address" -> c.mlsAddress
    [] f = "neighborhood" -> c.region
    [] f = "type" -> IF c.styleCode # "" THEN inferTypeFromMlsStyle(c.styleCode) ELSE ""
    [] f = "zip" -> c.zip
    [] f = "beds" -> IF c.beds > 0 THEN StringOfInt(c.beds) ELSE << >>
    [] f = "baths" -> IF c.baths > 0 THEN StringOfTenths(c.baths) ELSE << >>
    [] f = "sqft" -> IF c.sqft > 0 THEN StringOfInt(c.sqft) ELSE << >>
    [] f = "yearBuilt" -> IF c.yearBuilt > 0 THEN StringOfInt(c.yearBuilt) ELSE << >>

\* C23: every descriptive field of a synthesized row has the record's value
\* when the record has one, whatever the snapshot of the parcel holds.
RealtorFirstFill ==
  pc = "returned" =>
    \A f \in {"address", "neighborhood", "type", "zip", "beds", "baths", "sqft", "yearBuilt"} :
      RecordValue(FillRecord(probe), f) # EmptyCell(f)
        => result[1][f] = RecordValue(FillRecord(probe), f)

\* the same for the six fields other than neighborhood and type
RealtorFirstFillOfSix ==
  pc = "returned" =>
    \A f \in {"address", "zip", "beds", "baths", "sqft", "yearBuilt"} :
      RecordValue(FillRecord(probe), f) # EmptyCell(f)
        => result[1][f] = RecordValue(FillRecord(probe), f)

\* a townhouse of the NE Seattle file on a parcel the county has in Ballard
\* as a single family home: the row has the county's labels
SnapshotFirstLabels ==
  /\ pc = "returned"
  /\ FillRecord(probe).region = "NE Seattle"
  /\ FillRecord(probe).styleCode = "32 - Townhouse"
  /\ result[1].neighborhood = "Ballard"
  /\ result[1].type = "Single Family"
  /\ result[1].beds = <<"4">>

RECURSIVE FirstNonEmpty(_, _, _, _)
\* the first value of field f that is not empty among the rows of key apn
FirstNonEmpty(countyRows, apn, f, i) ==
  IF i > Len(countyRows) THEN EmptyCell(f)
  ELSE IF countyRows[i].parcel = apn /\ countyRows[i][f] # EmptyCell(f) THEN countyRows[i][f]
  ELSE FirstNonEmpty(countyRows, apn, f, i + 1)

\* C24: the snapshot has exactly the valid keys of the county rows, and each
\* field of each key holds the first non-empty value of the field among the
\* rows of the key, in row order, or the empty value when no row has one.
SnapshotFirstNonEmpty ==
  pc = "snapshot" =>
    /\ DOMAIN result[1] = {FillRows(probe)[i].parcel : i \in 1..Len(probe.county)} \ {<< >>}
    /\ \A apn \in DOMAIN result[1] : \A f \in SnapshotFields :
         result[1][apn][f] = FirstNonEmpty(FillRows(probe), apn, f, 1)

\* two rows of one parcel that disagree on the beds, after a row without a
\* key: the first row of the parcel gives beds and neighbourhood, the second
\* the address
SnapshotFirstNonEmptyWitness ==
  /\ pc = "snapshot"
  /\ MaxSnapshotRows >= 2
  /\ \E i \in 1..Len(probe.county) : \E j \in (i + 1)..Len(probe.county) :
       /\ probe.county[i] = CountyNoPrice @@ CountySparse
       /\ probe.county[j] = CountyNoPrice @@ CountyDescribed
  /\ result[1][<<"1", "2", "3", "4", "5", "6", "0", "0", "1", "0">>].beds = <<"2">>
  /\ result[1][<<"1", "2", "3", "4", "5", "6", "0", "0", "1", "0">>].neighborhood = "Fremont"
  /\ result[1][<<"1", "2", "3", "4", "5", "6", "0", "0", "1", "0">>].address = <<"12 Elm St">>

\* a row without a valid key is in no snapshot
InvalidKeyContributesNothing ==
  /\ pc = "snapshot"
  /\ Len(probe.county) = 2
  /\ FillRows(probe)[1].parcel = << >>
  /\ probe.county[1].neighborhood = "Ballard"
  /\ FillRows(probe)[2].parcel # << >>
  /\ result[1][FillRows(probe)[2].parcel].neighborhood = ""

(***************************************************************************)
(* The orchestrator (refresh_data_pipeline.js, lines 1-100)                *)
(***************************************************************************)
\* the exit statuses spawnSync reports for a child
ExitStatuses == {0, 1, 2}

\* parseArgs (lines 22-30) over every set of the four flags
OrchestratorOptions ==
  [skipPublic : BOOLEAN, skipMls : BOOLEAN, reportOnly : BOOLEAN, push : BOOLEAN]

\* a run that takes every status for success
RunNeverFails(status) == FALSE

\* line 17: the test under which run throws
RunFails(status) == status # 0

InitOrchestrator ==
  /\ pc = "publicBuild"
  /\ probe \in OrchestratorOptions
  /\ result = [log |-> << >>, exit |-> << >>]
  /\ PipelineIdle

\* run (lines 11-20) called from main or stageAndPush: the child runs and
\* exits with status; a status other than 0 throws, which the catch of
\* lines 94-100 turns into process.exit(1)
Run(command, status, next) ==
  /\ result' = [log |-> Append(result.log, [command |-> command, status |-> status]),
                exit |-> IF RunFails(status) THEN <<1>> ELSE result.exit]
  /\ pc' = IF RunFails(status) THEN "exited" ELSE next
  /\ UNCHANGED <<fsys, outputFile, reportFile, rows, mlsRows, used, cursor, merged, trace,
                 matched, listingStubbed, mlsOnlyRows, mlsOpenOnlyRows, probe>>

\* a position of main that runs nothing
Pass(next) ==
  /\ pc' = next
  /\ UNCHANGED <<fsys, outputFile, reportFile, rows, mlsRows, used, cursor, merged, trace,
                 matched, listingStubbed, mlsOnlyRows, mlsOpenOnlyRows, probe, result>>

\* the orchestrator returns from main: the process exits with 0
ExitClean ==
  /\ pc' = "exited"
  /\ result' = [result EXCEPT !.exit = <<0>>]
  /\ UNCHANGED <<fsys, outputFile, reportFile, rows, mlsRows, used, cursor, merged, trace,
                 matched, listingStubbed, mlsOnlyRows, mlsOpenOnlyRows, probe>>

\* lines 78-81
StepPublicBuild ==
  /\ pc = "publicBuild"
  /\ IF ~probe.reportOnly /\ ~probe.skipPublic
     THEN \E status \in ExitStatuses : Run("build_public_proxy_csv", status, "mlsBuild")
     ELSE Pass("mlsBuild")

\* lines 78 and 82-84
StepMlsBuild ==
  /\ pc = "mlsBuild"
  /\ IF ~probe.reportOnly /\ ~probe.skipMls
     THEN \E status \in ExitStatuses : Run("build_mls_enriched_dataset", status, "validate")
     ELSE Pass("validate")

\* line 87
StepValidate ==
  /\ pc = "validate"
  /\ \E status \in ExitStatuses : Run("validate_data_refresh", status, "publish")

\* lines 89-91 and 59: with --push stageAndPush begins with git add
StepStage ==
  /\ pc = "publish"
  /\ IF probe.push
     THEN \E status \in ExitStatuses : Run("git add", status, "diffCheck")
     ELSE ExitClean

\* lines 60-69: git diff --cached --quiet exits with 0 when nothing is staged,
\* and stageAndPush returns
StepDiffCheck ==
  /\ pc = "diffCheck"
  /\ \E status \in ExitStatuses :
       /\ result' = [log |-> Append(result.log, [command |-> "git diff", status |-> status]),
                     exit |-> IF status = 0 THEN <<0>> ELSE result.exit]
       /\ pc' = IF status = 0 THEN "exited" ELSE "commit"
       /\ UNCHANGED <<fsys, outputFile, reportFile, rows, mlsRows, used, cursor, merged, trace,
                      matched, listingStubbed, mlsOnlyRows, mlsOpenOnlyRows, probe>>

\* lines 71-72
StepCommit ==
  /\ pc = "commit"
  /\ \E status \in ExitStatuses : Run("git commit", status, "push")

\* line 73
StepPush ==
  /\ pc = "push"
  /\ \E status \in ExitStatuses : Run("git push", status, "pushed")

\* stageAndPush and main return
StepReturn ==
  /\ pc = "pushed"
  /\ ExitClean

NextOrchestrator ==
  \/ StepPublicBuild
  \/ StepMlsBuild
  \/ StepValidate
  \/ StepStage
  \/ StepDiffCheck
  \/ StepCommit
  \/ StepPush
  \/ StepReturn

SpecOrchestrator == InitOrchestrator /\ [][NextOrchestrator]_vars

\* the place of a command in the order public build, MLS build, validation,
\* publish; the four git commands are the publish step
StepRank(command) ==
  CASE command = "build_public_proxy_csv" -> 1
    [] command = "build_mls_enriched_dataset" -> 2
    [] command = "validate_data_refresh" -> 3
    [] command = "git add" -> 4
    [] command = "git diff" -> 5
    [] command = "git commit" -> 6
    [] command = "git push" -> 7

\* the commands of the log
Ran(log) == {log[i].command : i \in 1..Len(log)}

\* a child that run started exited with a status other than 0
Failed(log) == \E i \in 1..Len(log) : log[i].command # "git diff" /\ log[i].status # 0

\* C25: the commands run in the order public build, MLS build, validation,
\* publish, each after the one before it exited with 0; validation runs in
\* every invocation whose builds did not fail, whatever the flags; the git
\* commands run only with --push and only after validation exited with 0;
\* a failing command ends the orchestrator with a non-zero exit code at
\* once, and without a failure the exit code is 0.
OrchestratorOrder ==
  /\ \A i \in 1..Len(result.log) : \A j \in (i + 1)..Len(result.log) :
       /\ StepRank(result.log[i].command) < StepRank(result.log[j].command)
       /\ result.log[i].status = 0 \/ result.log[i].command = "git diff"
  /\ Failed(result.log) => (pc = "exited" /\ result.exit = <<1>>)
  /\ (Ran(result.log) \cap {"git add", "git diff", "git commit", "git push"} # {})
       => /\ probe.push
          /\ \E i \in 1..Len(result.log) :
               result.log[i] = [command |-> "validate_data_refresh", status |-> 0]
  /\ pc = "exited" =>
       /\ result.exit = <<IF Failed(result.log) THEN 1 ELSE 0>>
       /\ "validate_data_refresh" \in Ran(result.log)
            <=> ~\E i \in 1..Len(result.log) :
                   /\ StepRank(result.log[i].command) < 3
                   /\ result.log[i].status # 0

\* a full run with --push: both builds, validation, add, diff, commit, push
OrchestratorOrderWitness ==
  /\ pc = "exited"
  /\ probe = [skipPublic |-> FALSE, skipMls |-> FALSE, reportOnly |-> FALSE, push |-> TRUE]
  /\ Len(result.log) = 7
  /\ result.log[5] = [command |-> "git diff", status |-> 1]
  /\ result.exit = <<0>>

\* --report-only: validation alone ran
ReportOnlyValidates ==
  /\ pc = "exited"
  /\ probe.reportOnly /\ ~probe.push
  /\ result.log = <<[command |-> "validate_data_refresh", status |-> 0]>>

\* the MLS build failed: no validation, no publish, exit code 1
FailedBuildStops ==
  /\ pc = "exited"
  /\ probe.push
  /\ result.log = <<[command |-> "build_public_proxy_csv", status |-> 0],
                    [command |-> "build_mls_enriched_dataset", status |-> 2]>>
  /\ result.exit = <<1>>

(***************************************************************************)
(* The validator (refresh_data_pipeline.js, lines 102-308)                 *)
(***************************************************************************)
MaxValidatedRows == 2

REQUIRED_ENRICHED_COLUMNS ==
  <<"dataMode", "id", "address", "major", "minor", "parcelNbr", "saleDate",
    "listPriceAtPending", "closePrice", "mlsStatus", "mlsListingPrice", "mlsOriginalPrice",
    "mlsDOM", "mlsCDOM", "saleToListRatio", "saleToOriginalListRatio", "bidUpAmount",
    "bidUpPct">>

\* line 257
ValidatorMlsRows(enriched) == SelectSeq(enriched, LAMBDA r : r.dataMode = "MLS_ENRICHED")

\* line 258
ValidatorMlsSoldRows(enriched) ==
  SelectSeq(ValidatorMlsRows(enriched), LAMBDA r : num(r.closePrice) > 0)

\* line 259
ValidatorMlsOpenRows(enriched) ==
  SelectSeq(ValidatorMlsRows(enriched), LAMBDA r : num(r.closePrice) <= 0)

\* lines 260-262
ValidatorMlsActiveRows(enriched) ==
  SelectSeq(ValidatorMlsRows(enriched),
            LAMBDA r : ToUpperCase(r.mlsStatus) = "ACTIVE" /\ num(r.closePrice) <= 0)

\* the test of line 263 on one row
MissingAsk(r) == num(FirstText(r.mlsListingPrice, r.listPriceAtPending)) <= 0

\* line 263
activeMissingAsk(enriched) == Len(SelectSeq(ValidatorMlsActiveRows(enriched), MissingAsk))

\* lines 221-222
MissingFileErrors(in) ==
  (IF ~in.publicExists THEN <<"Missing file: public">> ELSE << >>)
  \o (IF ~in.enrichedExists THEN <<"Missing file: enriched">> ELSE << >>)

\* lines 243-249
MissingColumnErrors(in) ==
  (IF hasColumns(in.publicHeaders, REQUIRED_PUBLIC_COLUMNS) # << >>
   THEN <<"Public dataset missing columns">> ELSE << >>)
  \o (IF hasColumns(in.enrichedHeaders, REQUIRED_ENRICHED_COLUMNS) # << >>
      THEN <<"Enriched dataset missing columns">> ELSE << >>)

\* lines 274-279
RowErrors(enriched) ==
  (IF activeMissingAsk(enriched) > 0
   THEN <<"Found active MLS rows without listing/pending ask">> ELSE << >>)
  \o (IF ValidatorMlsRows(enriched) = << >>
      THEN <<"No MLS_ENRICHED rows found in enriched dataset">> ELSE << >>)

\* the rows are read when both files exist and the enriched header is complete
\* (lines 242 and 251)
RowsRead(in) ==
  /\ MissingFileErrors(in) = << >>
  /\ hasColumns(in.enrichedHeaders, REQUIRED_ENRICHED_COLUMNS) = << >>

\* the error list of main (lines 218-284)
ValidatorErrors(in) ==
  MissingFileErrors(in)
  \o (IF MissingFileErrors(in) = << >> THEN MissingColumnErrors(in) ELSE << >>)
  \o (IF RowsRead(in) THEN RowErrors(in.rows) ELSE << >>)

\* the warning list of main (lines 224-227 and 280-282)
ValidatorWarnings(in) ==
  (IF in.realtorCsvCount = 0 THEN <<"No realtor CSV files found">> ELSE << >>)
  \o (IF RowsRead(in) /\ ValidatorMlsSoldRows(in.rows) = << >>
      THEN <<"No MLS sold rows found">> ELSE << >>)

\* lines 265-272, or the empty counts of line 239
ValidatorCounts(in) ==
  IF RowsRead(in)
  THEN <<[outputRows |-> Len(in.rows),
          mlsRows |-> Len(ValidatorMlsRows(in.rows)),
          mlsSoldRows |-> Len(ValidatorMlsSoldRows(in.rows)),
          mlsOpenRows |-> Len(ValidatorMlsOpenRows(in.rows)),
          mlsActiveRows |-> Len(ValidatorMlsActiveRows(in.rows))]>>
  ELSE << >>

\* a verdict that fails on a warning as well
StatusCountingWarnings(errors, warnings) ==
  IF errors \o warnings # << >> THEN "fail" ELSE "pass"

\* line 288
ValidatorStatus(errors, warnings) == IF errors # << >> THEN "fail" ELSE "pass"

\* the summary of lines 229-288
ValidatorSummary(in) ==
  [status |-> ValidatorStatus(ValidatorErrors(in), ValidatorWarnings(in)),
   errors |-> ValidatorErrors(in),
   warnings |-> ValidatorWarnings(in),
   realtorCsvCount |-> in.realtorCsvCount,
   counts |-> ValidatorCounts(in)]

\* updateReport (lines 204-215): the report on disk, or an empty one when
\* there is none or it does not parse, with the result as its validation
updateReport(report, summary) ==
  [counts |-> IF report.state = "object" THEN report.counts ELSE << >>,
   validation |-> <<summary>>]

\* lines 301-304: process.exitCode is set to 1 when there are errors
ValidatorExitCode(errors) == IF errors # << >> THEN 1 ELSE 0

\* a county row no record joined
ValidatedCounty ==
  [dataMode |-> "PUBLIC_PROXY", mlsStatus |-> "", closePrice |-> <<"5", "0", "0", "0", "0", "0">>,
   mlsListingPrice |-> << >>, listPriceAtPending |-> << >>]

\* a row with a close price from a brokerage line
ValidatedSold ==
  [dataMode |-> "MLS_ENRICHED", mlsStatus |-> "Sold",
   closePrice |-> <<"5", "0", "1", "0", "0", "0">>,
   mlsListingPrice |-> <<"4", "8", "0", "0", "0", "0">>,
   listPriceAtPending |-> <<"4", "8", "0", "0", "0", "0">>]

\* an open row, active or pending, with or without an ask
ValidatedOpen(status, ask) ==
  [dataMode |-> "MLS_ENRICHED", mlsStatus |-> status, closePrice |-> << >>,
   mlsListingPrice |-> ask, listPriceAtPending |-> ask]

ValidatedRows ==
  {ValidatedCounty, ValidatedSold}
  \cup {ValidatedOpen(s, a) : s \in {"Active", "Pending"},
                              a \in {<<"5", "2", "0", "0", "0", "0">>, << >>}}

\* the files the validator finds
ValidatorInputs ==
  [publicExists : BOOLEAN, enrichedExists : BOOLEAN,
   publicHeaders : {REQUIRED_PUBLIC_COLUMNS, <<"id", "address">>},
   enrichedHeaders : {REQUIRED_ENRICHED_COLUMNS,
                      SelectSeq(REQUIRED_ENRICHED_COLUMNS, LAMBDA h : h # "mlsStatus")},
   realtorCsvCount : {0, 1},
   rows : SeqsUpTo(ValidatedRows, MaxValidatedRows),
   report : {[state |-> "absent", counts |-> << >>], [state |-> "corrupt", counts |-> << >>],
             [state |-> "object", counts |-> <<"counts of the builder">>]}]

InitValidate ==
  /\ pc = "call"
  /\ probe \in ValidatorInputs
  /\ result = << >>
  /\ PipelineIdle

\* main of the validator (lines 217-306)
ApplyValidate ==
  /\ pc = "call"
  /\ result' = <<[summary |-> ValidatorSummary(probe),
                  report |-> updateReport(probe.report, ValidatorSummary(probe)),
                  exitCode |-> ValidatorExitCode(ValidatorErrors(probe))]>>
  /\ pc' = "returned"
  /\ UNCHANGED <<fsys, outputFile, reportFile, rows, mlsRows, used, cursor, merged, trace,
                 matched, listingStubbed, mlsOnlyRows, mlsOpenOnlyRows, probe>>

NextValidate == ApplyValidate

SpecValidate == InitValidate /\ [][NextValidate]_vars

\* both files exist with their columns, there is a row of the brokerage, and
\* no active row without a close price lacks an ask
NothingWrong(in) ==
  /\ in.publicExists /\ in.enrichedExists
  /\ \A c \in Range(REQUIRED_PUBLIC_COLUMNS) : c \in Range(in.publicHeaders)
  /\ \A c \in Range(REQUIRED_ENRICHED_COLUMNS) : c \in Range(in.enrichedHeaders)
  /\ \E i \in 1..Len(in.rows) : in.rows[i].dataMode = "MLS_ENRICHED"
  /\ \A i \in 1..Len(in.rows) :
       (/\ in.rows[i].dataMode = "MLS_ENRICHED"
        /\ in.rows[i].mlsStatus = "Active"
        /\ in.rows[i].closePrice = << >>)
         => (in.rows[i].mlsListingPrice # << >> \/ in.rows[i].listPriceAtPending # << >>)

ValidatorFailIsReported ==
  /\ pc = "returned"
  /\ probe.report.state = "corrupt"
  /\ probe.rows = <<ValidatedOpen("Active", << >>)>>
  /\ result[1].summary.status = "fail"
  /\ result[1].exitCode = 1
  /\ result[1].report.validation[1].status = "fail"

(***************************************************************************)
(* The counts of the report                                                *)
(***************************************************************************)
\* C27: in the report of a run that ended without an error every open-status
\* record is either the stub of a county row or an open row of its own,
\* matched county rows and closed-only rows together are no more than the
\* closed records, matched and stub-enriched county rows together are no more
\* than the county rows, and the exclusion set has one uid for each matched
\* or stub-enriched county row.
ReportCountConservation ==
  pc = "done" =>
    LET counts == reportFile.counts[1]
    IN /\ counts.mlsOpenStatusRows
            = counts.countyRowsEnrichedWithListingStub + counts.mlsOnlyOpenRowsAdded
       /\ counts.matchedCountyRows + counts.mlsOnlySoldRowsAdded <= counts.mlsClosedRows
       /\ counts.matchedCountyRows + counts.countyRowsEnrichedWithListingStub
            <= counts.baseRows
       /\ Cardinality(used)
            = counts.matchedCountyRows + counts.countyRowsEnrichedWithListingStub

\* a run with a stub-enriched county row, an open row of its own and a closed
\* record that became no row
ReportCountConservationWitness ==
  /\ pc = "done"
  /\ reportFile.counts[1].countyRowsEnrichedWithListingStub = 1
  /\ reportFile.counts[1].mlsOnlyOpenRowsAdded = 1
  /\ reportFile.counts[1].mlsOpenStatusRows = 2
  /\ Cardinality(used) = 1

\* a run in which a county row matched and another closed record got a row
MatchedAndClosedOnly ==
  /\ pc = "done"
  /\ reportFile.counts[1].matchedCountyRows = 1
  /\ reportFile.counts[1].mlsOnlySoldRowsAdded = 1
  /\ reportFile.counts[1].mlsClosedRows = 2

\* a run in which a closed record is neither matched nor given a row
ClosedRecordWithoutRow ==
  /\ pc = "done"
  /\ reportFile.counts[1].matchedCountyRows + reportFile.counts[1].mlsOnlySoldRowsAdded
       < reportFile.counts[1].mlsClosedRows

(***************************************************************************)
(* The uids of the records of a run                                        *)
(***************************************************************************)
MaxUidLines == 2

\* an active listing without a listing number, and one whose number is "7.csv|"
RealtorUnnumbered == [RealtorActive EXCEPT !.ListingNumber = ""]

RealtorPipeNumber == [RealtorActive EXCEPT !.ListingNumber = "7.csv|"]

UidLines == {RealtorSold, RealtorActive, RealtorUnnumbered, RealtorPipeNumber}

\* a directory of two brokerage files; the name of the second may hold a "|"
UidProbes ==
  {<<CsvFile("NE Seattle Sale Stats.csv", RealtorHeadersFull, a),
     CsvFile(name, RealtorHeadersFull, b)>> :
     a \in SeqsUpTo(UidLines, MaxUidLines), b \in SeqsUpTo(UidLines, MaxUidLines),
     name \in {"NW Seattle Sale Stats.csv", "NE Seattle Sale Stats.csv|7.csv"}}

InitUid ==
  /\ pc = "call"
  /\ probe \in UidProbes
  /\ result = << >>
  /\ PipelineIdle

\* line 449
ApplyReadRealtorRows ==
  /\ pc = "call"
  /\ result' = <<readRealtorRows(probe)>>
  /\ pc' = "returned"
  /\ UNCHANGED <<fsys, outputFile, reportFile, rows, mlsRows, used, cursor, merged, trace,
                 matched, listingStubbed, mlsOnlyRows, mlsOpenOnlyRows, probe>>

NextUid == ApplyReadRealtorRows

SpecUid == InitUid /\ [][NextUid]_vars

\* C29: any two records of a run have different uids, whether they come from
\* the same file or from two files.
UidsDistinct ==
  pc = "returned" =>
    \A i \in 1..Len(result[1]) : \A j \in (i + 1)..Len(result[1]) :
      result[1][i].uid # result[1][j].uid

\* the same when no file name holds a "|"
UidsDistinctOfPlainNames ==
  (pc = "returned" /\ probe[2].file = "NW Seattle Sale Stats.csv") =>
    \A i \in 1..Len(result[1]) : \A j \in (i + 1)..Len(result[1]) :
      result[1][i].uid # result[1][j].uid

\* two lines of one file that agree in every cell have different uids
DuplicateLinesDiffer ==
  /\ pc = "returned"
  /\ probe[1].lines = <<RealtorSold, RealtorSold>>
  /\ result[1][1].uid # result[1][2].uid
  /\ result[1][1].uid[1] = result[1][2].uid[1]

\* the first line of "NE Seattle Sale Stats.csv" with listing number "7.csv|"
\* and the first line of "NE Seattle Sale Stats.csv|7.csv" without a listing
\* number have the same uid
UidCollision ==
  /\ pc = "returned"
  /\ probe[1].lines = <<RealtorPipeNumber>>
  /\ probe[2].file = "NE Seattle Sale Stats.csv|7.csv"
  /\ probe[2].lines = <<RealtorUnnumbered>>
  /\ result[1][1].uid = result[1][2].uid

(***************************************************************************)
(* Runs over a directory with a "|" in a file name                         *)
(***************************************************************************)
\* "NE Seattle Sale Stats.csv" and "NE Seattle Sale Stats.csv|7.csv", each with
\* at most one active listing of parcel 123456-0010
PipeNameDirs ==
  {<<CsvFile("NE Seattle Sale Stats.csv", RealtorHeadersFull, a),
     CsvFile("NE Seattle Sale Stats.csv|7.csv", RealtorHeadersFull, b)>> :
     a \in SeqsUpTo({RealtorPipeNumber, RealtorActive}, 1) \ {<< >>},
     b \in SeqsUpTo({RealtorUnnumbered, RealtorActive}, 1) \ {<< >>}}

PipeNameInputs ==
  {[base |-> BaseFile(BaseHeadersFull, cl), dirExists |-> TRUE, files |-> d] :
     cl \in SeqsUpTo(CountyLines \cup {CountyByMajorMinor}, MaxCounty), d \in PipeNameDirs}

InitPipeName ==
  /\ pc = "start"
  /\ fsys \in PipeNameInputs \cup DefectiveInputs
  /\ outputFile = PreviousFile
  /\ reportFile = PreviousReport
  /\ rows = << >>
  /\ mlsRows = << >>
  /\ used = {}
  /\ cursor = 1
  /\ merged = << >>
  /\ trace = << >>
  /\ matched = 0
  /\ listingStubbed = 0
  /\ mlsOnlyRows = << >>
  /\ mlsOpenOnlyRows = << >>
  /\ probe = << >>
  /\ result = << >>

SpecPipeName == InitPipeName /\ [][Next]_vars

\* one county row took the listing of the first file as its stub, and the
\* listing of the second file, which has the same uid, got no row: two open
\* records, one stub, no open row
OpenRecordLost ==
  /\ pc = "done"
  /\ Len(mlsRows) = 2
  /\ mlsRows[1].uid = mlsRows[2].uid
  /\ reportFile.counts[1].mlsOpenStatusRows = 2
  /\ reportFile.counts[1].countyRowsEnrichedWithListingStub = 1
  /\ reportFile.counts[1].mlsOnlyOpenRowsAdded = 0

(***************************************************************************)
(* The order of the county rows                                            *)
(***************************************************************************)
\* what the two matchers give a county row from an exclusion set
OutcomeFrom(row, records, usedIds) ==
  LET match == chooseBestMatch(row, mlsClosedByApn(records, row.parcel), usedIds)
      stub == IF match = << >>
              THEN chooseBestListingStub(row, mlsStubByApn(records, row.parcel), usedIds)
              ELSE << >>
  IN [closedUid |-> UidOf(match), stubUid |-> UidOf(stub)]

RECURSIVE TakenBefore(_, _, _)
\* the uids the first k - 1 rows of a county list take, from these rows alone
TakenBefore(countyRows, records, k) ==
  IF k <= 1 THEN {}
  ELSE LET before == TakenBefore(countyRows, records, k - 1)
       IN before \cup ChosenUids(OutcomeFrom(countyRows[k - 1], records, before))

\* C28: what a county row takes is what the matchers give it from the uids
\* that the rows before it took, which the rows before it alone decide: the
\* rows after it, and whether there are any, have no part in it; and it takes
\* no uid a row before it took.  Stated of the row the run has just dealt with.
GreedyFirstCome ==
  (pc = "match" /\ trace # << >>) =>
    LET k == Len(trace)
        before == TakenBefore(SubSeq(rows, 1, k - 1), mlsRows, k)
        outcome == OutcomeFrom(rows[k], mlsRows, before)
    IN /\ trace[k].closedUid = outcome.closedUid
       /\ trace[k].stubUid = outcome.stubUid
       /\ ChosenUids(trace[k]) \cap before = {}

\* two county rows that each would take the same sold record when alone: the
\* first one has it, the second one is left without a closed match
GreedyFirstComeWitness ==
  /\ pc = "match"
  /\ Len(trace) = 2
  /\ trace[1].closedUid # << >>
  /\ OutcomeFrom(rows[2], mlsRows, {}).closedUid = trace[1].closedUid
  /\ OutcomeFrom(rows[1], mlsRows, {}).closedUid = trace[1].closedUid
  /\ trace[2].closedUid = << >>

(***************************************************************************)
(* The rows of the builder under the ask test of the validator             *)
(***************************************************************************)
\* the cells of a synthesized row that the validator reads, as readRows
\* (refresh_data_pipeline.js, lines 170-186) returns them from the CSV
ReadBack(row) ==
  [dataMode |-> row.dataMode,
   mlsStatus |-> row.mlsStatus,
   closePrice |-> IF row.closePrice = << >> THEN << >> ELSE StringOfInt(row.closePrice[1]),
   mlsListingPrice |-> row.mlsListingPrice,
   listPriceAtPending |-> row.listPriceAtPending]

\* C30: a synthesized row of the builder that is MLS_ENRICHED and Active
\* without a positive close price has a positive mlsListingPrice or
\* listPriceAtPending: the validator counts no active row without an ask.
ActiveRowsCarryAsk ==
  pc = "returned" => activeMissingAsk(<<ReadBack(result[1])>>) = 0

\* the same for the rows of records that have a listing price
ActiveRowsWithListingPriceCarryAsk ==
  (pc = "returned" /\ FillRecord(probe).listingPrice > 0)
    => activeMissingAsk(<<ReadBack(result[1])>>) = 0

\* an active listing without a listing price gets an open row with empty
\* close price, mlsListingPrice and listPriceAtPending, and the validator
\* has an error for it
ActiveRowWithoutAsk ==
  /\ pc = "returned"
  /\ probe.line.Status = "Active"
  /\ probe.line.ListingPrice = << >>
  /\ result[1].dataMode = "MLS_ENRICHED"
  /\ result[1].mlsStatus = "Active"
  /\ result[1].mlsJoinMethod = "MLS_STATUS_OPEN"
  /\ result[1].closePrice = << >>
  /\ result[1].mlsListingPrice = << >>
  /\ result[1].listPriceAtPending = << >>
  /\ RowErrors(<<ReadBack(result[1])>>) = <<"Found active MLS rows without listing/pending ask">>

====
